---------------------------- MODULE Spec2Model ----------------------------
(***************************************************************************)
(* State-reconciliation engine of bnc-scraper: the Order Table and Order   *)
(* Book merge state machine (core/bnc/state/book.rs), the flat sequence    *)
(* balancer (core/bnc/state/balancer.rs), the book balancer and the worker *)
(* tasks that race to call send on them (core/bnc/ws/worker/*.rs).         *)
(*                                                                         *)
(* Text (PriceLevel, Qty) is a sequence of one-character strings, so that  *)
(* the character scan of update_level and the byte-wise ordering of the    *)
(* BTreeMap<String, Qty> keys are computed as the code computes them.      *)
(***************************************************************************)
EXTENDS Integers, Sequences, FiniteSets, TLC

(***************************************************************************)
(* Bounds of the model.                                                    *)
(***************************************************************************)
\* update ids range over 0..MaxId
MaxId == 2
\* number of redundant worker tasks sharing one balancer
NumWorkers == 2

\* the longest run of sends made one after another on one balancer
MaxSent == 5

\* number of init calls and of stop calls made on one manager
MaxInits == 2

MaxStops == 2

\* the longest payload handed to from_orders on its own
MaxPayload == 3

\* OrderTable::owned_top: .take(10)
TopN == 10

\* BncCfg::default(): chnlcapacity, the capacity of the mpsc channel of BncState

Ids == 0 .. MaxId
Workers == 1 .. NumWorkers

(***************************************************************************)
(* u64 ids.  TLC's integers end at 2^31 - 1, so a u64 is held as the       *)
(* integer with the same bits read in two's complement: the ids 0 .. MaxId *)
(* are themselves and 2^64 - 1, the largest u64, is -1.                    *)
(***************************************************************************)
\* u64::MAX
U64Max == -1

\* a < b on u64
U64Less(a, b) == IF (a < 0) = (b < 0) THEN a < b ELSE b < 0

\* `a - 1` on u64 where overflow checks are off: 0 wraps to u64::MAX
WrappingSub1(a) == IF a = 0 THEN U64Max ELSE a - 1

\* the ids an update offered to an Order Book on its own may end at: the small
\* ids and u64::MAX
BookIds == Ids \cup {U64Max}

(***************************************************************************)
(* Text values.                                                            *)
(***************************************************************************)
\* byte value of a character: String's Ord compares the UTF-8 bytes
Byte(c) ==
    CASE c = "." -> 46
      [] c = "0" -> 48
      [] c = "1" -> 49
      [] c = "2" -> 50
      [] c = "3" -> 51
      [] c = "4" -> 52
      [] c = "5" -> 53
      [] c = "6" -> 54
      [] c = "7" -> 55
      [] c = "8" -> 56
      [] c = "9" -> 57

\* a < b for two texts: lexicographic on bytes, a proper prefix is smaller
RECURSIVE StrLess(_, _)
StrLess(a, b) ==
    IF b = <<>> THEN FALSE
    ELSE IF a = <<>> THEN TRUE
    ELSE IF Head(a) = Head(b) THEN StrLess(Tail(a), Tail(b))
    ELSE Byte(Head(a)) < Byte(Head(b))

\* price levels "9" and "10": numeric order and text order disagree on them
Levels == { <<"9">>, <<"1", "0">> }
\* quantities "0.0" (zero) and "0.5"
Qtys == { <<"0", ".", "0">>, <<"0", ".", "5">> }
\* InlineOrder(level, qty)
Orders == Levels \X Qtys

(***************************************************************************)
(* Order Table: BTreeMap<String, Qty>, a function from the stored levels   *)
(* to their quantity.                                                      *)
(***************************************************************************)
EmptyTable == [l \in {} |-> <<>>]

Insert(table, level, qty) ==
    [l \in (DOMAIN table) \cup {level} |-> IF l = level THEN qty ELSE table[l]]

Remove(table, level) ==
    [l \in (DOMAIN table) \ {level} |-> table[l]]

\* mutant of QtyNotEmpty: the dot is not skipped
QtyNotEmptyDot(qty) ==
    \E i \in 1 .. Len(qty) : qty[i] # "0"

\* order.1.chars().any(|char| char != '0' && char != '.')
QtyNotEmpty(qty) ==
    \E i \in 1 .. Len(qty) : qty[i] # "0" /\ qty[i] # "."

\* OrderTable::update_level
UpdateLevel(table, order) ==
    IF ~QtyNotEmpty(order[2])
    THEN Remove(table, order[1])
    ELSE Insert(table, order[1], order[2])

\* mutant of FromOrders: the first entry of a level is the one kept
RECURSIVE FromOrdersFirstWins(_)
FromOrdersFirstWins(data) ==
    IF data = <<>> THEN EmptyTable
    ELSE Insert(FromOrdersFirstWins(Tail(data)), Head(data)[1], Head(data)[2])

\* OrderTable::from_orders: collect() into the map, a later entry of a level
\* replaces an earlier one; quantities are stored as given
RECURSIVE FromOrders(_)
FromOrders(data) ==
    IF data = <<>> THEN EmptyTable
    ELSE LET n == Len(data)
         IN  Insert(FromOrders(SubSeq(data, 1, n - 1)), data[n][1], data[n][2])

\* the keys of the map in iteration order (ascending text order)
RECURSIVE Keys(_)
Keys(S) ==
    IF S = {} THEN <<>>
    ELSE LET m == CHOOSE x \in S : \A y \in S : x = y \/ StrLess(x, y)
         IN  <<m>> \o Keys(S \ {m})

Take(s, n) == SubSeq(s, 1, IF Len(s) < n THEN Len(s) ELSE n)

Rev(s) == [i \in 1 .. Len(s) |-> s[Len(s) + 1 - i]]

\* OrderTable::owned_top: keys().take(10).rev().map(|key| (key, qty))
OwnedTop(table) ==
    LET ks == Rev(Take(Keys(DOMAIN table), TopN))
    IN  [i \in 1 .. Len(ks) |-> <<ks[i], table[ks[i]]>>]

(***************************************************************************)
(* Order Book: mode, bids, asks.                                           *)
(***************************************************************************)
SnapshotMode(last) == [kind |-> "Snapshot", last_update_id |-> last]

UpdateMode(first, final) ==
    [kind |-> "Update", first_update_id |-> first, final_update_id |-> final]

\* From<SymbolSnapshot> for OrderBook
BookFromSnapshot(snapshot) ==
    [mode |-> SnapshotMode(snapshot.last_update_id),
     bids |-> FromOrders(snapshot.bids),
     asks |-> FromOrders(snapshot.asks)]

\* mutant of ApplyOrders: the entries are applied last entry first
RECURSIVE ApplyOrdersReversed(_, _)
ApplyOrdersReversed(table, orders) ==
    IF orders = <<>> THEN table
    ELSE UpdateLevel(ApplyOrdersReversed(table, Tail(orders)), Head(orders))

\* the for loops of process_depth_update: update_level for every entry, in order
RECURSIVE ApplyOrders(_, _)
ApplyOrders(table, orders) ==
    IF orders = <<>> THEN table
    ELSE ApplyOrders(UpdateLevel(table, Head(orders)), Tail(orders))

\* OrderBook::process_depth_update
ProcessDepthUpdate(book, update) ==
    [mode |-> UpdateMode(update.first_update_id, update.final_update_id),
     bids |-> ApplyOrders(book.bids, update.bids),
     asks |-> ApplyOrders(book.asks, update.asks)]

\* `update.first_update_id - 1` on u64 leaves the type when first_update_id = 0:
\* a panic where overflow checks are compiled in, a wrap where they are not
SubOverflows(book, update) ==
    book.mode.kind = "Update" /\ update.first_update_id = 0

\* mutant of IsUpdateSatisfying: Snapshot mode also asks the range to cover last + 1
IsUpdateSatisfyingCovering(book, update) ==
    IF book.mode.kind = "Snapshot"
    THEN /\ U64Less(book.mode.last_update_id, update.final_update_id)
         /\ ~U64Less(book.mode.last_update_id + 1, update.first_update_id)
    ELSE WrappingSub1(update.first_update_id) = book.mode.final_update_id

\* mutant of IsUpdateSatisfying: in mode Update an update past a gap is taken too
IsUpdateSatisfyingPastGap(book, update) ==
    IF book.mode.kind = "Snapshot"
    THEN U64Less(book.mode.last_update_id, update.final_update_id)
    ELSE ~U64Less(WrappingSub1(update.first_update_id), book.mode.final_update_id)

\* OrderBook::is_update_satisfying, as it returns when it does not panic: the
\* comparisons are those of u64, and with overflow checks off the subtraction
\* wraps, so that first_update_id = 0 is taken by a book whose final_update_id
\* is u64::MAX
IsUpdateSatisfying(book, update) ==
    IF book.mode.kind = "Snapshot"
    THEN U64Less(book.mode.last_update_id, update.final_update_id)
    ELSE WrappingSub1(update.first_update_id) = book.mode.final_update_id

\* mutant of AddDepthUpdate: the update is merged before the admission test is read
AddDepthUpdateMergeFirst(book, update, checks) ==
    IF checks /\ SubOverflows(book, update)
    THEN [ret |-> "panic", book |-> book]
    ELSE [ret |-> IF IsUpdateSatisfying(book, update) THEN "true" ELSE "false",
          book |-> ProcessDepthUpdate(book, update)]

\* OrderBook::add_depth_update: the returned flag and the book afterwards.
\* With overflow checks compiled in (debug profile) an overflowing
\* subtraction panics before anything is written.
AddDepthUpdate(book, update, checks) ==
    IF checks /\ SubOverflows(book, update)
    THEN [ret |-> "panic", book |-> book]
    ELSE IF IsUpdateSatisfying(book, update)
         THEN [ret |-> "true", book |-> ProcessDepthUpdate(book, update)]
         ELSE [ret |-> "false", book |-> book]

\* the overflow-checks setting of the build: on in the debug profile, off in release
OverflowChecks == BOOLEAN

\* OrderBook::top
Top(book) == [asks |-> OwnedTop(book.asks), bids |-> OwnedTop(book.bids)]


(***************************************************************************)
(* Inputs: the wire messages the model enumerates.                         *)
(***************************************************************************)
\* payloads of at most one and at most two entries
Payloads1 == { <<>> } \cup { <<o>> : o \in Orders }

Payloads2 == Payloads1 \cup { <<o1, o2>> : o1 \in Orders, o2 \in Orders }

\* quantities of the ask side entries the model enumerates
AskPayloads == { <<>> } \cup { << <<l, q>> >> : l \in { <<"1", "0">> }, q \in Qtys }

\* SymbolDepthUpdate as OrderBook reads it: first_update_id, final_update_id, bids, asks
Updates ==
    [first_update_id : Ids, final_update_id : BookIds,
     bids : Payloads2, asks : AskPayloads]

\* SymbolSnapshot: last_update_id, bids, asks
Snapshots ==
    [last_update_id : Ids, bids : Payloads1, asks : AskPayloads]

(***************************************************************************)
(* State.                                                                  *)
(***************************************************************************)
VARIABLES
    book,            \* OrderBook { mode, bids, asks }
    call,            \* the last add_depth_update call: argument, book before, returned flag
    last_update_id,  \* MessageBalancer.last_update_id: <<>> is None, <<id>> is Some(id)
    forwarded,       \* the items the flat balancer's sink has taken, in order
    pc,              \* where each worker task stands
    data,            \* the message each worker has decoded and is sending
    result,          \* what each worker's last send returned
    holders,         \* the tasks holding a guard of the balancer's Mutex
    value,           \* the current value of the watch channel
    rx_alive,        \* whether the consumer still holds the channel's Receiver
    snap,            \* per task: book and channel value seen when it took the lock
    stored,          \* per task: whether its current send has called sender.send(book.top())
    sent,            \* the sends made one after another on one balancer: id and outcome of each
    table,           \* an OrderTable on its own: one side of a book
    side,            \* which side of the book that table is: "bids" or "asks"
    levelop,         \* the last update_level call on it: the order and the table before
    unseen,          \* whether the channel holds a value its Receiver has not marked seen
    got,             \* the value the consumer's last read returned
    got_at,          \* how many items the sink had taken when that read was made
    frame,           \* per task: the stream event it skipped last, or ended on, since its last update
    exchange,        \* what fetch_snapshot gets from the REST endpoint: <<snapshot>>, or <<>> when it fails
    mgr,             \* the manager's calls so far: how many init and stop, what the last one returned
    tasks,           \* the manager's self.tasks: the JoinHandles it holds, in order
    task_state,      \* every task spawned so far, in spawn order: "running", "aborting",
                     \* "cancelled" or "ended"
    feed             \* what is fed in: a payload handed to from_orders and whether it has returned,
                     \* or the depth stream of the exchange, each worker's place in it, the merges made

bookVars == <<book, call>>

workerVars == <<pc, data, result, holders, frame>>

chanVars == <<value, rx_alive, unseen>>

flatVars == <<last_update_id, forwarded>>

guardVars == <<snap, stored>>

\* the record of the sends made one after another on one balancer
auxVars == <<sent, table, side, levelop, got, got_at, exchange, mgr, tasks, task_state, feed>>

managerVars == <<exchange, mgr, tasks, task_state>>

consumerVars == <<got, got_at>>

tableVars == <<table, side, levelop>>

vars == <<book, call, last_update_id, forwarded, pc, data, result, holders,
          value, rx_alive, snap, stored, sent, table, side, levelop,
          unseen, got, got_at, frame, exchange, mgr, tasks, task_state, feed>>

NoCall == [ret |-> "none"]

NoOp == [order |-> <<>>]

\* no table is held on its own
NoTable ==
    /\ table = EmptyTable
    /\ side = "none"
    /\ levelop = NoOp

\* the consumer has read nothing
NoConsumer ==
    /\ got = <<>>
    /\ got_at = 0

NoMgr == [inits |-> 0, stops |-> 0, op |-> "none", ret |-> "none"]

\* no manager is modelled: nothing fetched, no call made, no task spawned
NoManager ==
    /\ exchange = <<>>
    /\ mgr = NoMgr
    /\ tasks = <<>>
    /\ task_state = <<>>

NoFeed == [payload |-> <<>>, collected |-> FALSE]

\* nothing has been sent one after another, no table is held on its own
NoAux ==
    /\ sent = <<>>
    /\ NoTable
    /\ NoConsumer
    /\ NoManager
    /\ feed = NoFeed

\* SymbolPriceUpdate::default(): the value PriceStateManager::init seeds the channel with
DefaultPriceUpdate == [id |-> 0]

\* no balancer, worker or channel exists: the state of their variables in a
\* specification that is about the Order Book alone
NoPipeline ==
    /\ last_update_id = <<>>
    /\ forwarded = <<>>
    /\ pc = [w \in Workers |-> "none"]
    /\ frame = [w \in Workers |-> "none"]
    /\ data = [w \in Workers |-> <<>>]
    /\ result = [w \in Workers |-> "none"]
    /\ holders = {}
    /\ value = <<>>
    /\ rx_alive = FALSE
    /\ unseen = FALSE
    /\ snap = [w \in Workers |-> <<>>]
    /\ stored = [w \in Workers |-> FALSE]

(***************************************************************************)
(* The Order Book as a sequential object: built from a snapshot, then fed  *)
(* any sequence of depth updates through add_depth_update.                 *)
(***************************************************************************)
InitOrderBook ==
    /\ \E snapshot \in Snapshots : book = BookFromSnapshot(snapshot)
    /\ call = NoCall
    /\ NoPipeline
    /\ NoAux

\* one call of OrderBook::add_depth_update(update) by the owner of the book
CallAddDepthUpdate(update) ==
    /\ call = NoCall
    /\ \E checks \in OverflowChecks :
         LET r == AddDepthUpdate(book, update, checks)
         IN  /\ book' = r.book
             /\ call' = [ret |-> r.ret, update |-> update, before |-> book]
    /\ UNCHANGED <<workerVars, chanVars, flatVars, guardVars>>
    /\ UNCHANGED auxVars

\* the caller has looked at the returned flag and goes on
ReturnAddDepthUpdate ==
    /\ call # NoCall
    /\ call' = NoCall
    /\ UNCHANGED <<book, workerVars, chanVars, flatVars, guardVars>>
    /\ UNCHANGED auxVars

NextOrderBook ==
    \/ \E update \in Updates : CallAddDepthUpdate(update)
    \/ ReturnAddDepthUpdate

SpecOrderBook == InitOrderBook /\ [][NextOrderBook]_vars

(***************************************************************************)
(* Claims about the Order Book, checked under SpecOrderBook.               *)
(***************************************************************************)
Called == call # NoCall

\* the id a mode records: last_update_id of Snapshot, final_update_id of Update
RecordedId(m) ==
    IF m.kind = "Snapshot" THEN m.last_update_id ELSE m.final_update_id

\* update_level applied for each entry of orders, first entry first
RECURSIVE Folded(_, _)
Folded(start, orders) ==
    IF orders = <<>> THEN start
    ELSE LET n == Len(orders)
         IN  UpdateLevel(Folded(start, SubSeq(orders, 1, n - 1)), orders[n])

\* C4: with the Book in Snapshot{last}, add_depth_update(u) returns, and returns
\* true exactly when u.final_update_id > last, whatever u.first_update_id is.
C4_SnapshotAdmission ==
    (Called /\ call.before.mode.kind = "Snapshot") =>
        /\ call.ret \in {"true", "false"}
        /\ call.ret = "true" <=>
               U64Less(call.before.mode.last_update_id, call.update.final_update_id)

\* an update whose range starts below and ends above the snapshot's id was accepted
C4_Witness ==
    /\ Called
    /\ call.before.mode.kind = "Snapshot"
    /\ call.ret = "true"
    /\ U64Less(call.update.first_update_id, call.before.mode.last_update_id)

\* C5: with the Book in Update{_, final}, add_depth_update(u) returns true exactly
\* when u.first_update_id - 1 = final, the ids taken as numbers (so never for
\* u.first_update_id = 0); an update that leaves a gap or overlaps the merged
\* range is never accepted.
C5_UpdateAdmission ==
    (Called /\ call.before.mode.kind = "Update") =>
        (call.ret = "true" <=>
            /\ call.update.first_update_id # 0
            /\ call.update.first_update_id - 1 = call.before.mode.final_update_id)

\* C6: every accepted update raises the id recorded in the mode, for any
\* update offered.
C6_FinalIncreases ==
    (Called /\ call.ret = "true") =>
        U64Less(RecordedId(call.before.mode), RecordedId(book.mode))

\* C7: add_depth_update changes the Book only when it returns true: after a
\* call that returned false (or did not return) mode, bids and asks are as before.
C7_RejectLeavesBook ==
    Called =>
        /\ call.ret # "true" => book = call.before
        /\ book # call.before => call.ret = "true"

\* a refused update carried an entry that would have changed the bids table
C7_Witness ==
    /\ Called
    /\ call.ret = "false"
    /\ call.update.bids # <<>>
    /\ Folded(call.before.bids, call.update.bids) # call.before.bids

\* C8: an accepted update u leaves mode Update{u.first_update_id,
\* u.final_update_id}, bids = old bids with update_level applied for each entry
\* of u.bids in order, and asks likewise with u.asks.
C8_AcceptMerges ==
    (Called /\ call.ret = "true") =>
        /\ book.mode = [kind |-> "Update",
                        first_update_id |-> call.update.first_update_id,
                        final_update_id |-> call.update.final_update_id]
        /\ book.bids = Folded(call.before.bids, call.update.bids)
        /\ book.asks = Folded(call.before.asks, call.update.asks)

\* an accepted update, offered to a Snapshot book, named one stored bid level
\* twice, first with a quantity and then with zero, and that level is gone
C8_Witness ==
    /\ Called
    /\ call.ret = "true"
    /\ call.before.mode.kind = "Snapshot"
    /\ Len(call.update.bids) = 2
    /\ call.update.bids[1][1] = call.update.bids[2][1]
    /\ QtyNotEmpty(call.update.bids[1][2])
    /\ ~QtyNotEmpty(call.update.bids[2][2])
    /\ call.update.bids[1][1] \in DOMAIN call.before.bids
    /\ call.update.bids[1][1] \notin DOMAIN book.bids

\* the number a price text of decimal digits stands for
RECURSIVE Price(_)
Price(level) ==
    IF level = <<>> THEN 0
    ELSE LET n == Len(level)
         IN  10 * Price(SubSeq(level, 1, n - 1)) + (Byte(level[n]) - Byte("0"))

\* the prices of a displayed side, in the order displayed
Prices(display) == [i \in 1 .. Len(display) |-> Price(display[i][1])]

\* C14: top() shows each side by true numeric price, best price first: the
\* bids from the highest price down, the asks from the lowest price up.
C14_TopByPrice ==
    LET bids == Prices(Top(book).bids)
        asks == Prices(Top(book).asks)
    IN  /\ \A i, j \in 1 .. Len(bids) : i < j => bids[i] > bids[j]
        /\ \A i, j \in 1 .. Len(asks) : i < j => asks[i] < asks[j]

\* the levels of a table stored with a quantity that represents zero
ZeroLevels(t) == {l \in DOMAIN t : ~QtyNotEmpty(t[l])}

\* C12: in every reachable state of the Order Book neither the bids nor the
\* asks table stores a level whose quantity represents zero.
C12_NoZeroStored ==
    /\ ZeroLevels(book.bids) = {}
    /\ ZeroLevels(book.asks) = {}

(***************************************************************************)
(* The worker tasks and the flat balancer: Arc<Mutex<MessageBalancer<B>>>  *)
(* with a watch channel as sink.  A worker task is at "next" (awaiting     *)
(* stream.next()), at "lock" (inside send, awaiting the Mutex) or inside   *)
(* the critical section of send: "check", "set", "forward", "unlock".      *)
(***************************************************************************)
\* SymbolPriceUpdate: the id is all the balancer reads of it
PriceUpdates == [id : Ids]

\* BalancedEntity::update_id
UpdateId(item) == item.id

\* mutant of MutexFree: the lock is granted whoever holds it
MutexFreeAlways(h) == TRUE

\* mutant of MutexFree: the lock admits a second holder
MutexFreeTwo(h) == Cardinality(h) <= 1

\* tokio::sync::Mutex::lock().await completes only while no guard is alive
MutexFree(h) == h = {}

\* mutant of Admits: an id equal to the last one is let through
AdmitsEqual(last, id) == last = <<>> \/ id >= last[1]

\* mutant of Admits: the comparison with the last id is left out
AdmitsAll(last, id) == TRUE

\* mutant of Admits: any id other than the last one is let through
AdmitsOther(last, id) == last = <<>> \/ id # last[1]

\* the admission test of send: no last id yet, or a strictly larger id
Admits(last, id) == last = <<>> \/ id > last[1]

\* PriceStateManager::init: a fresh balancer, the channel seeded with the
\* default update, every worker spawned and waiting for its first message
InitFlat ==
    /\ last_update_id = <<>>
    /\ forwarded = <<>>
    /\ pc = [w \in Workers |-> "next"]
    /\ frame = [w \in Workers |-> "none"]
    /\ data = [w \in Workers |-> <<>>]
    /\ result = [w \in Workers |-> "none"]
    /\ holders = {}
    /\ value = DefaultPriceUpdate
    /\ rx_alive = TRUE
    /\ unseen = FALSE
    /\ snap = [w \in Workers |-> <<>>]
    /\ stored = [w \in Workers |-> FALSE]
    /\ book = <<>>
    /\ call = NoCall
    /\ NoAux

\* stream.next().await yields a decoded message; the worker calls send(message)
WorkerNext(w, msg) ==
    /\ pc[w] = "next"
    /\ pc' = [pc EXCEPT ![w] = "lock"]
    /\ data' = [data EXCEPT ![w] = msg]
    /\ result' = [result EXCEPT ![w] = "none"]
    /\ frame' = [frame EXCEPT ![w] = "none"]
    /\ UNCHANGED <<holders, chanVars, flatVars, guardVars, bookVars, auxVars>>

\* send: let mut balancer = self.lock().await
FlatLock(w) ==
    /\ pc[w] = "lock"
    /\ MutexFree(holders)
    /\ holders' = holders \cup {w}
    /\ pc' = [pc EXCEPT ![w] = "check"]
    /\ UNCHANGED <<data, result, chanVars, flatVars, guardVars, bookVars>>
    /\ UNCHANGED <<auxVars, frame>>

\* send: the comparison with last_update_id; a failing one returns DataRejected
FlatCheck(w) ==
    /\ pc[w] = "check"
    /\ IF Admits(last_update_id, UpdateId(data[w]))
       THEN /\ pc' = [pc EXCEPT ![w] = "set"]
            /\ UNCHANGED result
       ELSE /\ pc' = [pc EXCEPT ![w] = "unlock"]
            /\ result' = [result EXCEPT ![w] = "Rejected"]
    /\ UNCHANGED <<data, holders, chanVars, flatVars, guardVars, bookVars>>
    /\ UNCHANGED <<auxVars, frame>>

\* send: last_update_id takes the id of the item
FlatSet(w) ==
    /\ pc[w] = "set"
    /\ last_update_id' = <<UpdateId(data[w])>>
    /\ pc' = [pc EXCEPT ![w] = "forward"]
    /\ UNCHANGED <<data, result, holders, chanVars, forwarded, guardVars, bookVars>>
    /\ UNCHANGED <<auxVars, frame>>

\* mutant of FlatForward: the sink is a one-place queue, the item is handed
\* over only once the consumer has taken the one before
FlatForwardQueued(w) ==
    /\ pc[w] = "forward"
    /\ ~unseen
    /\ value' = data[w]
    /\ unseen' = TRUE
    /\ forwarded' = Append(forwarded, data[w])
    /\ result' = [result EXCEPT ![w] = "Ok"]
    /\ pc' = [pc EXCEPT ![w] = "unlock"]
    /\ UNCHANGED <<data, holders, rx_alive, last_update_id, guardVars, bookVars, auxVars, frame>>

\* send: balancer.sender.send(data); watch::Sender::send stores the value while
\* a Receiver exists and fails, storing nothing, once every Receiver is dropped
FlatForward(w) ==
    /\ pc[w] = "forward"
    /\ IF rx_alive
       THEN /\ value' = data[w]
            /\ unseen' = TRUE
            /\ forwarded' = Append(forwarded, data[w])
            /\ result' = [result EXCEPT ![w] = "Ok"]
       ELSE /\ result' = [result EXCEPT ![w] = "SinkGone"]
            /\ UNCHANGED <<value, unseen, forwarded>>
    /\ pc' = [pc EXCEPT ![w] = "unlock"]
    /\ UNCHANGED <<data, holders, rx_alive, last_update_id, guardVars, bookVars>>
    /\ UNCHANGED <<auxVars, frame>>

\* mutant of Unlock: any Err returned by send ends the task
UnlockEndsOnErr(w) ==
    /\ pc[w] = "unlock"
    /\ holders' = holders \ {w}
    /\ pc' = [pc EXCEPT ![w] = IF result[w] = "Ok" THEN "next" ELSE "done"]
    /\ data' = [data EXCEPT ![w] = <<>>]
    /\ UNCHANGED <<result, chanVars, flatVars, guardVars, bookVars, auxVars, frame>>

\* send returns: the guard and the message are dropped; the worker logs the
\* result and awaits the next message whatever the result was
Unlock(w) ==
    /\ pc[w] = "unlock"
    /\ holders' = holders \ {w}
    /\ pc' = [pc EXCEPT ![w] = "next"]
    /\ data' = [data EXCEPT ![w] = <<>>]
    /\ UNCHANGED <<result, chanVars, flatVars, guardVars, bookVars>>
    /\ UNCHANGED <<auxVars, frame>>

\* the consumer drops its Receiver
DropReceiver ==
    /\ rx_alive
    /\ rx_alive' = FALSE
    /\ UNCHANGED <<value, unseen, workerVars, flatVars, guardVars, bookVars>>
    /\ UNCHANGED auxVars

NextFlat ==
    \/ \E w \in Workers, msg \in PriceUpdates : WorkerNext(w, msg)
    \/ \E w \in Workers : FlatLock(w)
    \/ \E w \in Workers : FlatCheck(w)
    \/ \E w \in Workers : FlatSet(w)
    \/ \E w \in Workers : FlatForward(w)
    \/ \E w \in Workers : Unlock(w)
    \/ DropReceiver

SpecFlat == InitFlat /\ [][NextFlat]_vars

(***************************************************************************)
(* Claims about the flat balancer, checked under SpecFlat.                 *)
(***************************************************************************)
\* C1: the items forwarded to the sink of one Balancer are strictly increasing
\* by id, for any interleaving of sends by any worker with any id.
C1_ForwardedIncreasing ==
    \A i \in 1 .. Len(forwarded) : \A j \in 1 .. Len(forwarded) :
        i < j => forwarded[i].id < forwarded[j].id

\* the sink has taken two items and a worker was refused a stale or duplicate id
C1_Witness ==
    /\ Len(forwarded) >= 2
    /\ \E w \in Workers :
         /\ result[w] = "Rejected"
         /\ data[w].id <= forwarded[Len(forwarded)].id

\* C10: last_update_id is unset until a send has passed admission, the first
\* send passes unconditionally and sets it to its id, and afterwards it only
\* changes to a strictly larger value: it never decreases or becomes unset.
C10_LastIdMonotonic ==
    /\ [](last_update_id = <<>> =>
            /\ forwarded = <<>>
            /\ \A w \in Workers :
                 result[w] = "none" /\ pc[w] \in {"next", "lock", "check", "set"})
    /\ [][ /\ last_update_id # <<>> =>
                /\ last_update_id' # <<>>
                /\ last_update_id'[1] >= last_update_id[1]
           /\ \A w \in Workers :
                (pc[w] = "check" /\ pc'[w] # "check" /\ last_update_id = <<>>) =>
                    pc'[w] = "set"
           /\ \A w \in Workers :
                (pc[w] = "set" /\ pc'[w] # "set") =>
                    /\ last_update_id' = <<data[w].id>>
                    /\ last_update_id # <<>> => last_update_id'[1] > last_update_id[1]
           /\ (\A w \in Workers : pc[w] = "set" => pc'[w] = "set") =>
                last_update_id' = last_update_id
         ]_vars

\* the last id has been raised from one id to a larger one
C10_Witness ==
    /\ Len(forwarded) >= 2
    /\ last_update_id = <<forwarded[Len(forwarded)].id>>
    /\ forwarded[1].id < last_update_id[1]

(***************************************************************************)
(* The race of C2: every worker has decoded the same message and calls     *)
(* send at the same moment, on a balancer that would admit it.             *)
(***************************************************************************)
InitRace ==
    \E msg \in PriceUpdates, last \in { <<>> } \cup { <<l>> : l \in Ids } :
        /\ IF last = <<>> THEN TRUE ELSE last[1] < msg.id
        /\ last_update_id = last
        /\ forwarded = IF last = <<>> THEN <<>> ELSE << [id |-> last[1]] >>
        /\ value = IF last = <<>> THEN DefaultPriceUpdate ELSE [id |-> last[1]]
        /\ pc = [w \in Workers |-> "lock"]
        /\ frame = [w \in Workers |-> "none"]
        /\ data = [w \in Workers |-> msg]
        /\ result = [w \in Workers |-> "none"]
        /\ holders = {}
        /\ rx_alive = TRUE
        /\ unseen = FALSE
        /\ snap = [w \in Workers |-> <<>>]
        /\ stored = [w \in Workers |-> FALSE]
        /\ book = <<>>
        /\ call = NoCall
        /\ NoAux

\* each worker runs its one send to the end; the consumer may leave meanwhile
NextRace ==
    \/ \E w \in Workers : FlatLock(w)
    \/ \E w \in Workers : FlatCheck(w)
    \/ \E w \in Workers : FlatSet(w)
    \/ \E w \in Workers : FlatForward(w)
    \/ \E w \in Workers : Unlock(w)
    \/ DropReceiver

SpecRace == InitRace /\ [][NextRace]_vars

RaceOver == \A w \in Workers : pc[w] = "next"

\* how many times item occurs in the sequence s
Occurrences(s, item) == Cardinality({i \in 1 .. Len(s) : s[i] = item})

\* C2: when all the tasks race to send the same admissible id, exactly one send
\* passes (it returns success while the consumer is there), all the others
\* return Rejected, and the sink takes the id exactly once.
C2_RaceOneWinner ==
    RaceOver =>
        LET winners == {w \in Workers : result[w] # "Rejected"}
        IN  /\ Cardinality(winners) = 1
            /\ \A w \in winners :
                 /\ result[w] \in {"Ok", "SinkGone"}
                 /\ rx_alive => result[w] = "Ok"
                 /\ last_update_id # <<>>
                 /\ Occurrences(forwarded, [id |-> last_update_id[1]]) =
                        (IF result[w] = "Ok" THEN 1 ELSE 0)

\* the race is over with the consumer still there: one send succeeded, one was rejected
C2_Witness ==
    /\ RaceOver
    /\ rx_alive
    /\ \E w \in Workers : result[w] = "Ok"
    /\ \E w \in Workers : result[w] = "Rejected"

(***************************************************************************)
(* The book balancer: Arc<Mutex<OrderBookBalancer>> { sender, book }, set  *)
(* up by OrderBookManager::init and shared by the depth workers.  Inside   *)
(* the critical section of send a task is at "check" (is_update_satisfying)*)
(* "merge" (process_depth_update), "publish" (sender.send(book.top())) or  *)
(* "unlock"; a task whose subtraction overflowed under overflow checks has *)
(* "panicked" and is gone.                                                 *)
(***************************************************************************)
\* the depth updates the workers decode from the stream
FeedPayloads ==
    { <<>>, << <<(<<"9">>), (<<"0", ".", "5">>)>> >>, << <<(<<"9">>), (<<"0", ".", "0">>)>> >> }

DepthFeed ==
    [first_update_id : Ids, final_update_id : Ids, bids : FeedPayloads, asks : { <<>> }]

\* the updates the racing workers take from their streams: one id per update,
\* or the range whose final id lies furthest below its first; each sets or
\* removes the bid level 9
WorkerFeed ==
    { u \in DepthFeed :
        /\ u.bids # <<>>
        /\ \/ u.first_update_id = u.final_update_id
           \/ u.first_update_id = MaxId /\ u.final_update_id = 0 }

\* the snapshots fetch_snapshot returns to OrderBookManager::init
BootSnapshots ==
    [last_update_id : Ids,
     bids : { <<>>, << <<(<<"9">>), (<<"0", ".", "5">>)>> >> },
     asks : { << <<(<<"1", "0">>), (<<"0", ".", "5">>)>> >> }]

\* OrderBookManager::init after a successful fetch_snapshot: the book of the
\* snapshot, the channel seeded with its top, every worker spawned
InitBook ==
    /\ \E snapshot \in BootSnapshots : book = BookFromSnapshot(snapshot)
    /\ value = Top(book)
    /\ rx_alive = TRUE
    /\ unseen = FALSE
    /\ pc = [w \in Workers |-> "next"]
    /\ frame = [w \in Workers |-> "none"]
    /\ data = [w \in Workers |-> <<>>]
    /\ result = [w \in Workers |-> "none"]
    /\ holders = {}
    /\ snap = [w \in Workers |-> <<>>]
    /\ stored = [w \in Workers |-> FALSE]
    /\ call = NoCall
    /\ last_update_id = <<>>
    /\ forwarded = <<>>
    /\ NoAux

\* stream.next().await yields a decoded update and the worker calls
\* send(update), which awaits the lock; the update is held by the task while
\* it waits
DepthNext(w, msg) ==
    /\ pc[w] = "next"
    /\ pc' = [pc EXCEPT ![w] = "lock"]
    /\ data' = [data EXCEPT ![w] = msg]
    /\ result' = [result EXCEPT ![w] = "none"]
    /\ frame' = [frame EXCEPT ![w] = "none"]
    /\ UNCHANGED <<holders, chanVars, flatVars, guardVars, bookVars, auxVars>>

\* send: let mut lock = self.lock().await completes
DepthAcquire(w) ==
    /\ pc[w] = "lock"
    /\ MutexFree(holders)
    /\ holders' = holders \cup {w}
    /\ pc' = [pc EXCEPT ![w] = "check"]
    /\ snap' = [snap EXCEPT ![w] = [book |-> book, value |-> value]]
    /\ stored' = [stored EXCEPT ![w] = FALSE]
    /\ UNCHANGED <<data, result, frame, chanVars, flatVars, bookVars, auxVars>>

\* mutant of BookCheck: a refused update is published all the same
BookCheckPublishRefused(w) ==
    /\ pc[w] = "check"
    /\ pc' = [pc EXCEPT ![w] = IF IsUpdateSatisfying(book, data[w])
                                THEN "merge" ELSE "publish"]
    /\ UNCHANGED <<result, holders, data, guardVars, chanVars, flatVars, bookVars>>
    /\ UNCHANGED <<auxVars, frame>>

\* mutant of BookCheck: the guard of a panicking task is never released
BookCheckPanicKeepsGuard(w) ==
    /\ pc[w] = "check"
    /\ \E checks \in OverflowChecks :
         IF checks /\ SubOverflows(book, data[w])
         THEN /\ pc' = [pc EXCEPT ![w] = "panicked"]
              /\ result' = [result EXCEPT ![w] = "panic"]
              /\ data' = [data EXCEPT ![w] = <<>>]
              /\ snap' = [snap EXCEPT ![w] = <<>>]
              /\ UNCHANGED holders
         ELSE IF IsUpdateSatisfying(book, data[w])
              THEN /\ pc' = [pc EXCEPT ![w] = "merge"]
                   /\ UNCHANGED <<result, holders, data, snap>>
              ELSE /\ pc' = [pc EXCEPT ![w] = "unlock"]
                   /\ result' = [result EXCEPT ![w] = "Rejected"]
                   /\ UNCHANGED <<holders, data, snap>>
    /\ UNCHANGED <<stored, chanVars, flatVars, bookVars, auxVars, frame>>

\* add_depth_update: is_update_satisfying(&update); a refused update makes send
\* return DataRejected; an overflowing subtraction panics under overflow
\* checks, and the unwinding task drops its guard
BookCheck(w) ==
    /\ pc[w] = "check"
    /\ \E checks \in OverflowChecks :
         IF checks /\ SubOverflows(book, data[w])
         THEN /\ pc' = [pc EXCEPT ![w] = "panicked"]
              /\ result' = [result EXCEPT ![w] = "panic"]
              /\ holders' = holders \ {w}
              /\ data' = [data EXCEPT ![w] = <<>>]
              /\ snap' = [snap EXCEPT ![w] = <<>>]
         ELSE IF IsUpdateSatisfying(book, data[w])
              THEN /\ pc' = [pc EXCEPT ![w] = "merge"]
                   /\ UNCHANGED <<result, holders, data, snap>>
              ELSE /\ pc' = [pc EXCEPT ![w] = "unlock"]
                   /\ result' = [result EXCEPT ![w] = "Rejected"]
                   /\ UNCHANGED <<holders, data, snap>>
    /\ UNCHANGED <<stored, chanVars, flatVars, bookVars>>
    /\ UNCHANGED <<auxVars, frame>>

\* add_depth_update: process_depth_update(update)
BookMerge(w) ==
    /\ pc[w] = "merge"
    /\ book' = ProcessDepthUpdate(book, data[w])
    /\ pc' = [pc EXCEPT ![w] = "publish"]
    /\ UNCHANGED <<call, data, result, holders, chanVars, flatVars, guardVars>>
    /\ UNCHANGED <<auxVars, frame>>

\* mutant of BookPublish: the top sent is the one of the book before the merge
BookPublishStale(w) ==
    /\ pc[w] = "publish"
    /\ IF rx_alive
       THEN /\ value' = Top(snap[w].book)
            /\ unseen' = TRUE
            /\ result' = [result EXCEPT ![w] = "Ok"]
       ELSE /\ result' = [result EXCEPT ![w] = "SinkGone"]
            /\ UNCHANGED <<value, unseen>>
    /\ stored' = [stored EXCEPT ![w] = TRUE]
    /\ pc' = [pc EXCEPT ![w] = "unlock"]
    /\ UNCHANGED <<data, holders, rx_alive, snap, flatVars, bookVars>>
    /\ UNCHANGED <<auxVars, frame>>

\* send: lock.sender.send(lock.book.top())
BookPublish(w) ==
    /\ pc[w] = "publish"
    /\ IF rx_alive
       THEN /\ value' = Top(book)
            /\ unseen' = TRUE
            /\ result' = [result EXCEPT ![w] = "Ok"]
       ELSE /\ result' = [result EXCEPT ![w] = "SinkGone"]
            /\ UNCHANGED <<value, unseen>>
    /\ stored' = [stored EXCEPT ![w] = TRUE]
    /\ pc' = [pc EXCEPT ![w] = "unlock"]
    /\ UNCHANGED <<data, holders, rx_alive, snap, flatVars, bookVars>>
    /\ UNCHANGED <<auxVars, frame>>

\* send returns: the guard and the update are dropped; the worker logs the
\* result and awaits the next message whatever the result was
BookUnlock(w) ==
    /\ pc[w] = "unlock"
    /\ holders' = holders \ {w}
    /\ pc' = [pc EXCEPT ![w] = "next"]
    /\ data' = [data EXCEPT ![w] = <<>>]
    /\ result' = [result EXCEPT ![w] = "none"]
    /\ snap' = [snap EXCEPT ![w] = <<>>]
    /\ stored' = [stored EXCEPT ![w] = FALSE]
    /\ UNCHANGED <<chanVars, flatVars, bookVars>>
    /\ UNCHANGED <<auxVars, frame>>

NextBook ==
    \/ \E w \in Workers, msg \in WorkerFeed : DepthNext(w, msg)
    \/ \E w \in Workers : DepthAcquire(w)
    \/ \E w \in Workers : BookCheck(w)
    \/ \E w \in Workers : BookMerge(w)
    \/ \E w \in Workers : BookPublish(w)
    \/ \E w \in Workers : BookUnlock(w)
    \/ DropReceiver

SpecBook == InitBook /\ [][NextBook]_vars


\* what one send does to the book and the channel when nothing runs beside it
SendAlone(before, update) ==
    LET r == AddDepthUpdate(before.book, update, FALSE)
    IN  [book   |-> r.book,
         ret    |-> IF r.ret = "false" THEN {"Rejected"} ELSE {"Ok", "SinkGone"},
         value  |-> [Rejected |-> before.value,
                     SinkGone |-> before.value,
                     Ok       |-> Top(r.book)]]

\* C3: at most one task is between the admission check and the publish, and
\* every send leaves the book, the channel and its result exactly as the same
\* send run alone on the state it found at the lock: no other task's check or
\* merge falls inside it, so the sends compose as a sequential run.
C3_SendAtomic ==
    /\ Cardinality(holders) <= 1
    /\ \A w \in Workers :
         /\ pc[w] \in {"check", "merge", "publish", "unlock"} => holders = {w}
         /\ pc[w] \in {"check", "merge"} =>
                /\ book = snap[w].book
                /\ value = snap[w].value
         /\ pc[w] = "publish" =>
                /\ book = ProcessDepthUpdate(snap[w].book, data[w])
                /\ value = snap[w].value
         /\ pc[w] = "unlock" =>
                LET alone == SendAlone(snap[w], data[w])
                IN  /\ result[w] \in alone.ret
                    /\ book = alone.book
                    /\ value = alone.value[result[w]]

\* a send that merged and published follows an earlier accepted send, with
\* the other workers in between their own sends
C3_Witness ==
    \E w \in Workers :
        /\ pc[w] = "unlock"
        /\ result[w] = "Ok"
        /\ snap[w].book.mode.kind = "Update"
        /\ book.bids # snap[w].book.bids
        /\ value # snap[w].value

\* C9: send calls sender.send(book.top()) if and only if the book accepted the
\* update; a refused update returns Rejected with the channel's value and the
\* book as they were, an accepted one puts the new top in the channel (or
\* returns the transmit error when no receiver is left).
C9_PublishIffAccepted ==
    \A w \in Workers :
        /\ pc[w] \in {"check", "merge", "publish"} => ~stored[w]
        /\ pc[w] = "unlock" =>
               LET accepted == IsUpdateSatisfying(snap[w].book, data[w])
               IN  /\ stored[w] <=> accepted
                   /\ result[w] = "Rejected" <=> ~accepted
                   /\ ~accepted => value = snap[w].value /\ book = snap[w].book
                   /\ result[w] = "Ok" => value = Top(book)
                   /\ result[w] = "SinkGone" => ~rx_alive /\ value = snap[w].value

\* a refused update has returned Rejected although it carried a bid that
\* would have changed the top of the book
C9_Witness ==
    \E w \in Workers :
        /\ pc[w] = "unlock"
        /\ result[w] = "Rejected"
        /\ rx_alive
        /\ Top(ProcessDepthUpdate(book, data[w])) # value

(***************************************************************************)
(* The flat balancer driven by one caller: MessageBalancer::new, then one  *)
(* send after another, each run to its return before the next is made.     *)
(***************************************************************************)
InitInTurn ==
    /\ last_update_id = <<>>
    /\ forwarded = <<>>
    /\ value = DefaultPriceUpdate
    /\ rx_alive = TRUE
    /\ unseen = FALSE
    /\ sent = <<>>
    /\ NoTable
    /\ NoConsumer
    /\ NoManager
    /\ feed = NoFeed
    /\ pc = [w \in Workers |-> "none"]
    /\ frame = [w \in Workers |-> "none"]
    /\ data = [w \in Workers |-> <<>>]
    /\ result = [w \in Workers |-> "none"]
    /\ holders = {}
    /\ snap = [w \in Workers |-> <<>>]
    /\ stored = [w \in Workers |-> FALSE]
    /\ book = <<>>
    /\ call = NoCall

\* mutant of SendInTurn: the sink is tried before the comparison is made
SendInTurnSinkFirst(item) ==
    /\ Len(sent) < MaxSent
    /\ IF ~rx_alive
       THEN /\ sent' = Append(sent, [id |-> UpdateId(item), ret |-> "SinkGone"])
            /\ UNCHANGED <<last_update_id, value, unseen, forwarded>>
       ELSE IF Admits(last_update_id, UpdateId(item))
            THEN /\ last_update_id' = <<UpdateId(item)>>
                 /\ value' = item
                 /\ unseen' = TRUE
                 /\ forwarded' = Append(forwarded, item)
                 /\ sent' = Append(sent, [id |-> UpdateId(item), ret |-> "Ok"])
            ELSE /\ sent' = Append(sent, [id |-> UpdateId(item), ret |-> "Rejected"])
                 /\ UNCHANGED <<last_update_id, value, unseen, forwarded>>
    /\ UNCHANGED <<rx_alive, workerVars, guardVars, bookVars, tableVars, consumerVars>>
    /\ UNCHANGED <<managerVars, feed>>

\* one whole send(item): lock, comparison, assignment of last_update_id,
\* sender.send(item), return
SendInTurn(item) ==
    /\ Len(sent) < MaxSent
    /\ IF Admits(last_update_id, UpdateId(item))
       THEN /\ last_update_id' = <<UpdateId(item)>>
            /\ IF rx_alive
               THEN /\ value' = item
                    /\ unseen' = TRUE
                    /\ forwarded' = Append(forwarded, item)
                    /\ sent' = Append(sent, [id |-> UpdateId(item), ret |-> "Ok"])
               ELSE /\ sent' = Append(sent, [id |-> UpdateId(item), ret |-> "SinkGone"])
                    /\ UNCHANGED <<value, unseen, forwarded>>
       ELSE /\ sent' = Append(sent, [id |-> UpdateId(item), ret |-> "Rejected"])
            /\ UNCHANGED <<last_update_id, value, unseen, forwarded>>
    /\ UNCHANGED <<rx_alive, workerVars, guardVars, bookVars, tableVars, consumerVars>>
    /\ UNCHANGED <<managerVars, feed>>

NextInTurn ==
    \/ \E item \in PriceUpdates : SendInTurn(item)
    \/ DropReceiver

SpecInTurn == InitInTurn /\ [][NextInTurn]_vars

\* the largest of a non-empty set of ids
MaxOf(S) == CHOOSE x \in S : \A y \in S : y <= x

\* C11: of the ids sent one after another to a fresh balancer, those strictly
\* greater than every earlier id are accepted (Ok while the consumer holds its
\* receiver) and every other one returns Rejected; last_update_id is the
\* largest id sent, and the sink has taken the accepted ids in order.
C11_AcceptsRunningMaxima ==
    /\ \A i \in 1 .. Len(sent) :
         LET above == \A j \in 1 .. i - 1 : sent[j].id < sent[i].id
         IN  /\ sent[i].ret = "Rejected" <=> ~above
             /\ (above /\ rx_alive) => sent[i].ret = "Ok"
    /\ last_update_id = IF sent = <<>> THEN <<>>
                        ELSE << MaxOf({sent[i].id : i \in 1 .. Len(sent)}) >>
    /\ LET taken == SelectSeq(sent, LAMBDA c : c.ret = "Ok")
       IN  forwarded = [i \in 1 .. Len(taken) |-> [id |-> taken[i].id]]

\* the run 1, 0, 2, 2 has been sent: 1 and 2 accepted, 0 and the second 2 not
C11_Witness ==
    /\ Len(sent) >= 4
    /\ <<sent[1].id, sent[2].id, sent[3].id, sent[4].id>> = <<1, 0, 2, 2>>
    /\ <<sent[1].ret, sent[2].ret, sent[3].ret, sent[4].ret>> =
           <<"Ok", "Rejected", "Ok", "Rejected">>
    /\ last_update_id = <<2>>

\* C29: each send returns one of Ok, Rejected and SinkGone: Rejected exactly
\* when last_update_id is Some(last) and the item's id is not above last,
\* whether or not the consumer holds its receiver; SinkGone exactly when the
\* item was not so refused and no receiver is left; Ok in every other case.
C29_SendOutcome ==
    [][Len(sent') = Len(sent) + 1 =>
          LET c == sent'[Len(sent')]
              stale == last_update_id # <<>> /\ c.id <= last_update_id[1]
          IN  /\ c.ret \in {"Ok", "Rejected", "SinkGone"}
              /\ c.ret = "Rejected" <=> stale
              /\ c.ret = "SinkGone" <=> (~stale /\ ~rx_alive)
              /\ c.ret = "Ok" <=> (~stale /\ rx_alive)]_vars

\* sends have returned Ok, then SinkGone once the consumer was gone, then
\* Rejected for an id not above the last one, the consumer still gone
C29_Witness ==
    /\ ~rx_alive
    /\ \E i, j, k \in 1 .. Len(sent) :
         /\ i < j /\ j < k
         /\ sent[i].ret = "Ok"
         /\ sent[j].ret = "SinkGone"
         /\ sent[k].ret = "Rejected"

(***************************************************************************)
(* One Order Table on its own: a side of the book, built by from_orders    *)
(* and changed by update_level, deep enough to hold more than ten levels.  *)
(***************************************************************************)
\* price levels of one to three digits
TableLevels ==
    { <<"1">>, <<"2">>, <<"3">>, <<"4">>, <<"5">>, <<"6">>, <<"7">>, <<"8">>,
      <<"9", "9">>, <<"1", "0", "0">>, <<"1", "0", "1">> }

\* the orders offered to the table: every level at "0.0" and at "0.5", and
\* level 99 also at "1", "0", "." and the empty text
TableOrders ==
    (TableLevels \X Qtys)
        \cup ({ <<"9", "9">> } \X { <<"1">>, <<"0">>, <<".">>, <<>> })

\* OrderTable::from_orders on the payload of a snapshot
InitTable ==
    /\ \E payload \in { <<>> } \cup { <<o>> : o \in TableOrders } :
           table = FromOrders(payload)
    /\ side \in {"bids", "asks"}
    /\ levelop = NoOp
    /\ sent = <<>>
    /\ NoConsumer
    /\ NoManager
    /\ feed = NoFeed
    /\ book = <<>>
    /\ call = NoCall
    /\ NoPipeline

\* one call of OrderTable::update_level(order)
CallUpdateLevel(order) ==
    /\ levelop = NoOp
    /\ table' = UpdateLevel(table, order)
    /\ levelop' = [order |-> order, before |-> table]
    /\ UNCHANGED <<side, sent, consumerVars, bookVars, workerVars, chanVars, flatVars, guardVars>>
    /\ UNCHANGED <<managerVars, feed>>

\* process_depth_update goes on to its next order
ReturnUpdateLevel ==
    /\ levelop # NoOp
    /\ levelop' = NoOp
    /\ UNCHANGED <<table, side, sent, consumerVars, bookVars, workerVars, chanVars, flatVars,
                   guardVars>>
    /\ UNCHANGED <<managerVars, feed>>

NextTable ==
    \/ \E order \in TableOrders : CallUpdateLevel(order)
    \/ ReturnUpdateLevel

SpecTable == InitTable /\ [][NextTable]_vars

\* a text made of the characters '0' and '.' only
OnlyZerosAndDots(qty) == \A i \in 1 .. Len(qty) : qty[i] \in {"0", "."}

\* C13: update_level(level, qty) with a qty of only '0' and '.' characters
\* removes the level when present and changes nothing when it is absent; with
\* any other qty the level maps to qty afterwards; every other level of the
\* table is as it was.
C13_UpdateLevel ==
    levelop # NoOp =>
        LET level  == levelop.order[1]
            qty    == levelop.order[2]
            before == levelop.before
        IN  /\ IF OnlyZerosAndDots(qty)
               THEN /\ level \notin DOMAIN table
                    /\ level \notin DOMAIN before => table = before
               ELSE /\ level \in DOMAIN table
                    /\ table[level] = qty
            /\ (DOMAIN table) \ {level} = (DOMAIN before) \ {level}
            /\ \A l \in (DOMAIN before) \ {level} : table[l] = before[l]

\* level 99 stored at 0.5 has been overwritten with 1 beside other levels,
\* or removed by the quantity "0.0"
C13_Witness ==
    /\ levelop # NoOp
    /\ levelop.order[1] = <<"9", "9">>
    /\ <<"9", "9">> \in DOMAIN levelop.before
    /\ Cardinality(DOMAIN levelop.before) >= 2
    /\ levelop.order[2] \in { <<"1">>, <<"0", ".", "0">> }
    /\ table # levelop.before

\* the levels of t with fewer than n levels of t priced better; on the bid
\* side the higher price is the better one, on the ask side the lower one
Best(t, which, n) ==
    { l \in DOMAIN t :
        Cardinality({ m \in DOMAIN t :
            IF which = "bids" THEN Price(m) > Price(l)
                              ELSE Price(m) < Price(l) }) < n }

\* C15: top() on a table of k levels returns exactly min(k, 10) entries, and
\* when k > 10 they are the 10 best-priced levels of that side: the 10 highest
\* bids, the 10 lowest asks.
C15_TopTenBest ==
    LET shown == OwnedTop(table)
        k     == Cardinality(DOMAIN table)
    IN  /\ Len(shown) = IF k < TopN THEN k ELSE TopN
        /\ k > TopN =>
               { shown[i][1] : i \in 1 .. Len(shown) } = Best(table, side, TopN)

(***************************************************************************)
(* The consumer of the watch channel beside the workers of the flat        *)
(* balancer: it reads when it likes, waits for a change, or drops out.      *)
(***************************************************************************)
\* receiver.borrow(): the current value, without waiting
ConsumerBorrow ==
    /\ rx_alive
    /\ got' = value
    /\ got_at' = Len(forwarded)
    /\ UNCHANGED <<sent, tableVars, chanVars, workerVars, flatVars, guardVars, bookVars>>
    /\ UNCHANGED <<managerVars, feed>>

\* mutant of ConsumerChanged: the read is made without waiting for a change
ConsumerChangedNoWait ==
    /\ rx_alive
    /\ got' = value
    /\ got_at' = Len(forwarded)
    /\ unseen' = FALSE
    /\ UNCHANGED <<sent, tableVars, value, rx_alive, workerVars, flatVars, guardVars, bookVars>>
    /\ UNCHANGED <<managerVars, feed>>

\* receiver.changed().await completes on an unseen value, then
\* receiver.borrow_and_update() reads it and marks it seen
ConsumerChanged ==
    /\ rx_alive
    /\ unseen
    /\ got' = value
    /\ got_at' = Len(forwarded)
    /\ unseen' = FALSE
    /\ UNCHANGED <<sent, tableVars, value, rx_alive, workerVars, flatVars, guardVars, bookVars>>
    /\ UNCHANGED <<managerVars, feed>>

NextChannel ==
    \/ NextFlat
    \/ ConsumerBorrow
    \/ ConsumerChanged

SpecChannel == InitFlat /\ [][NextChannel]_vars

\* the item published last, or the value the channel was created with
Latest == IF forwarded = <<>> THEN DefaultPriceUpdate ELSE forwarded[Len(forwarded)]

\* C16: a task that has reached its publish can always make it, whatever the
\* consumer has or has not read; the channel holds the one value published
\* last; every read of the consumer returned the value published last when it
\* was made, and a later read is never of an earlier publish.
C16_ChannelLatestNeverBlocks ==
    /\ [](\A w \in Workers : pc[w] = "forward" => ENABLED FlatForward(w))
    /\ [](rx_alive => value = Latest)
    /\ [](got # <<>> =>
            got = IF got_at = 0 THEN DefaultPriceUpdate ELSE forwarded[got_at])
    /\ [][got_at' >= got_at]_vars

\* at least two items have been published and the consumer's last read, made
\* before the publishing send has even returned, gave the one published last
C16_Witness ==
    /\ Len(forwarded) >= 2
    /\ got_at = Len(forwarded)
    /\ got = forwarded[Len(forwarded)]
    /\ ~unseen
    /\ \E w \in Workers : pc[w] = "unlock" /\ result[w] = "Ok"

(***************************************************************************)
(* The worker loop with all its stream events.  The socket yields a text   *)
(* message that decodes ("text", the case of WorkerNext and DepthNext), a   *)
(* text message that does not decode ("garbage"), a message that is no     *)
(* text ("ping": ping, pong, binary, close), an Err item ("error"), or     *)
(* ends (None); connect_async may fail before the loop ("refused").         *)
(***************************************************************************)
WireEvents == {"text", "garbage", "ping", "error"}

\* bnc_stream_connect: filter_map keeps message.ok()? when it is_text()
Kept(event) == event \in {"text", "garbage"}

\* symbol_book_ticks / symbol_depth_ticks: serde_json::from_slice succeeds
Decodes(event) == event = "text"

\* mutant of WorkerSkip: an event that yields no update ends the task
WorkerSkipFatal(w, event) ==
    /\ pc[w] = "next"
    /\ ~(Kept(event) /\ Decodes(event))
    /\ frame' = [frame EXCEPT ![w] = event]
    /\ pc' = [pc EXCEPT ![w] = "done"]
    /\ UNCHANGED <<data, result, holders, chanVars, flatVars, guardVars, bookVars, auxVars>>

\* stream.next().await yields no update: the event was filtered out by
\* bnc_stream_connect, or the worker got Err(err) from the decoder and logged
\* it; the loop goes round
WorkerSkip(w, event) ==
    /\ pc[w] = "next"
    /\ ~(Kept(event) /\ Decodes(event))
    /\ frame' = [frame EXCEPT ![w] = event]
    /\ UNCHANGED <<pc, data, result, holders, chanVars, flatVars, guardVars, bookVars, auxVars>>

\* stream.next().await yields None: the loop ends, the task returns Ok(())
WorkerStreamEnd(w) ==
    /\ pc[w] = "next"
    /\ frame' = [frame EXCEPT ![w] = "end"]
    /\ pc' = [pc EXCEPT ![w] = "done"]
    /\ UNCHANGED <<data, result, holders, chanVars, flatVars, guardVars, bookVars, auxVars>>

\* PriceStateManager::init with each task's connect_async either done or
\* failed: symbol_book_ticks(..).await? has returned the task's Err
InitPriceWorkers ==
    /\ \E refused \in SUBSET Workers :
         /\ pc = [w \in Workers |-> IF w \in refused THEN "done" ELSE "next"]
         /\ frame = [w \in Workers |-> IF w \in refused THEN "refused" ELSE "none"]
    /\ last_update_id = <<>>
    /\ forwarded = <<>>
    /\ data = [w \in Workers |-> <<>>]
    /\ result = [w \in Workers |-> "none"]
    /\ holders = {}
    /\ value = DefaultPriceUpdate
    /\ rx_alive = TRUE
    /\ unseen = FALSE
    /\ snap = [w \in Workers |-> <<>>]
    /\ stored = [w \in Workers |-> FALSE]
    /\ book = <<>>
    /\ call = NoCall
    /\ NoAux

NextPriceWorkers ==
    \/ NextFlat
    \/ \E w \in Workers, event \in WireEvents : WorkerSkip(w, event)
    \/ \E w \in Workers : WorkerStreamEnd(w)

SpecPriceWorkers == InitPriceWorkers /\ [][NextPriceWorkers]_vars

\* C17: a task whose send has returned SinkGone, or whose connection has
\* failed (refused, or ended), never takes another step but to be done: it
\* makes no further send.
C17_SinkGoneOrTransportEnds ==
    [][\A w \in Workers :
          ((pc[w] = "unlock" /\ result[w] = "SinkGone")
              \/ frame[w] \in {"end", "refused"})
          => pc'[w] \in {pc[w], "done"}]_vars

\* the task w can take the next update of its stream and call send with it
CanSendNext(w) == ENABLED (\E msg \in PriceUpdates : WorkerNext(w, msg))

\* every task but w is where it was, with the message and the result it had
OthersUntouched(w) ==
    \A v \in Workers \ {w} :
        pc'[v] = pc[v] /\ data'[v] = data[v] /\ result'[v] = result[v]

\* C18: a send that returns Rejected changes neither the balancer nor the
\* channel nor any other task; the task that got it goes back to awaiting its
\* stream, and a task awaiting its stream can always take and send the next
\* update.
C18_RejectedNonFatal ==
    /\ [][\A w \in Workers :
            /\ (result[w] # "Rejected" /\ result'[w] = "Rejected") =>
                   /\ UNCHANGED <<flatVars, chanVars>>
                   /\ OthersUntouched(w)
            /\ (pc[w] = "unlock" /\ result[w] = "Rejected" /\ pc'[w] # pc[w]) =>
                   /\ pc'[w] = "next"
                   /\ UNCHANGED <<flatVars, chanVars>>
                   /\ OthersUntouched(w)]_vars
    /\ [](\A w \in Workers :
            (pc[w] = "next" /\ result[w] = "Rejected") => CanSendNext(w))

\* a task whose send was rejected awaits its stream again, beside a task whose
\* send succeeded
C18_Witness ==
    \E w, v \in Workers :
        /\ pc[w] = "next"
        /\ result[w] = "Rejected"
        /\ result[v] = "Ok"

\* C19: a stream event that is no text message, or a text that does not
\* decode, is skipped alone: nothing reaches the balancer or the channel for
\* it, no task changes its place, and the task can take and send the next
\* update of its stream.
C19_SkipsThatMessageOnly ==
    /\ [][\A w \in Workers :
            (frame'[w] # frame[w] /\ frame'[w] \in {"garbage", "ping", "error"}) =>
                /\ pc[w] = "next"
                /\ UNCHANGED <<pc, data, result, holders, flatVars, chanVars>>]_vars
    /\ [](\A w \in Workers :
            frame[w] \in {"garbage", "ping", "error"} => CanSendNext(w))

\* a task that has sent an update with success has then skipped a text that
\* did not decode and awaits its stream
C19_Witness ==
    \E w \in Workers :
        /\ frame[w] = "garbage"
        /\ pc[w] = "next"
        /\ result[w] = "Ok"

(***************************************************************************)
(* The depth workers with the ways a task ends: connect_async refused, the *)
(* stream ended, or a panic inside send.                                    *)
(***************************************************************************)
\* OrderBookManager::init with each task's connect_async either done or
\* failed: symbol_depth_ticks(..).await? has returned the task's Err
InitDepthWorkers ==
    /\ \E snapshot \in BootSnapshots : book = BookFromSnapshot(snapshot)
    /\ value = Top(book)
    /\ rx_alive = TRUE
    /\ unseen = FALSE
    /\ \E refused \in SUBSET Workers :
         /\ pc = [w \in Workers |-> IF w \in refused THEN "done" ELSE "next"]
         /\ frame = [w \in Workers |-> IF w \in refused THEN "refused" ELSE "none"]
    /\ data = [w \in Workers |-> <<>>]
    /\ result = [w \in Workers |-> "none"]
    /\ holders = {}
    /\ snap = [w \in Workers |-> <<>>]
    /\ stored = [w \in Workers |-> FALSE]
    /\ call = NoCall
    /\ last_update_id = <<>>
    /\ forwarded = <<>>
    /\ NoAux

NextDepthWorkers ==
    \/ NextBook
    \/ \E w \in Workers : WorkerStreamEnd(w)

SpecDepthWorkers == InitDepthWorkers /\ [][NextDepthWorkers]_vars

\* the tasks that have ended
Ended == {w \in Workers : pc[w] \in {"done", "panicked"}}

\* C20: a task that has ended holds no guard of the balancer; beside ended
\* tasks every remaining task is granted the free lock for any update of its
\* stream, and its send accepts, merges and publishes as it would alone.
C20_SiblingsGoOn ==
    /\ holders \cap Ended = {}
    /\ Ended # {} =>
         \A v \in Workers \ Ended :
            /\ pc[v] = "next" => \A msg \in DepthFeed : ENABLED DepthNext(v, msg)
            /\ (pc[v] = "lock" /\ holders = {}) => ENABLED DepthAcquire(v)
            /\ pc[v] = "unlock" =>
                   LET alone == SendAlone(snap[v], data[v])
                   IN  /\ result[v] \in alone.ret
                       /\ book = alone.book
                       /\ value = alone.value[result[v]]

\* a task has ended (refused, stream ended, or panicked) and a remaining task
\* has had its update accepted and a new top published
C20_Witness ==
    \E w, v \in Workers :
        /\ pc[w] \in {"done", "panicked"}
        /\ pc[v] = "unlock"
        /\ result[v] = "Ok"
        /\ value = Top(book)
        /\ value # snap[v].value


\* C25: in SpecBook a book in mode Update never goes back to mode Snapshot;
\* from Update{_, f} the book changes only by the merge of an update whose
\* first_update_id is f + 1, and the channel's value only by the publish of
\* such an update; a send that returns Rejected changes neither book, channel
\* nor manager, and fetches nothing.
C25_NeverSelfHeals ==
    /\ [][book.mode.kind = "Update" => book'.mode.kind = "Update"]_vars
    /\ [][(book.mode.kind = "Update" /\ book' # book) =>
            \E w \in Workers :
                /\ pc[w] = "merge"
                /\ data[w].first_update_id = book.mode.final_update_id + 1
                /\ book' = ProcessDepthUpdate(book, data[w])]_vars
    /\ [][value' # value =>
            \E w \in Workers :
                /\ pc[w] = "publish"
                /\ snap[w].book.mode.kind = "Update" =>
                       data[w].first_update_id = snap[w].book.mode.final_update_id + 1]_vars
    /\ [][(\E w \in Workers : result'[w] = "Rejected" /\ result[w] # "Rejected") =>
            UNCHANGED <<book, value, unseen, managerVars>>]_vars

\* the book is in mode Update{_, f} and an update that leaves a gap after f,
\* carrying a bid that would have changed the top, has been Rejected
C25_Witness ==
    \E w \in Workers :
        /\ pc[w] = "unlock"
        /\ result[w] = "Rejected"
        /\ book.mode.kind = "Update"
        /\ data[w].first_update_id > book.mode.final_update_id + 1
        /\ Top(ProcessDepthUpdate(book, data[w])) # value

\* C27: every Display Snapshot published for an accepted update differs, in
\* bids or in asks, from the value the channel held before it, so that a
\* consumer woken by each change never reads the display it read last.
C27_PublishedTopsDiffer ==
    [][\A w \in Workers :
          (pc[w] = "publish" /\ pc'[w] = "unlock" /\ result'[w] = "Ok")
              => (value'.bids # value.bids \/ value'.asks # value.asks)]_vars

\* C31: whenever no task holds the lock of the book balancer and the consumer
\* holds its receiver, the channel's value is top() of the book.
C31_ChannelIsTopWhenFree ==
    (holders = {} /\ rx_alive) => value = Top(book)

\* the lock is free again after a send that merged and published an update,
\* the display shows a bid, and the consumer, still there, has not read it
C31_Witness ==
    /\ holders = {}
    /\ rx_alive
    /\ unseen
    /\ book.mode.kind = "Update"
    /\ value.bids # <<>>
    /\ \E w \in Workers : pc[w] = "next" /\ frame[w] = "none"

(***************************************************************************)
(* The Pipeline Manager: init fetches, builds and spawns, stop aborts the   *)
(* tasks whose JoinHandles the manager holds.                              *)
(***************************************************************************)
\* the snapshots the REST endpoint holds when a manager is built
FetchedSnapshots == { snapshot \in BootSnapshots : snapshot.last_update_id = 0 }

\* OrderBookManager::from_cfg: no handle held; the REST endpoint either
\* answers with a snapshot or fails
InitManager ==
    /\ exchange \in { <<>> } \cup { <<snapshot>> : snapshot \in FetchedSnapshots }
    /\ mgr = NoMgr
    /\ tasks = <<>>
    /\ task_state = <<>>
    /\ sent = <<>>
    /\ NoTable
    /\ NoConsumer
    /\ feed = NoFeed
    /\ book = <<>>
    /\ call = NoCall
    /\ NoPipeline

\* mutant of OrderBookManagerInit: the channel is created with an empty display
OrderBookManagerInitEmptyTop ==
    /\ mgr.inits < MaxInits
    /\ IF exchange = <<>>
       THEN /\ mgr' = [mgr EXCEPT !.inits = @ + 1, !.op = "init", !.ret = "Err"]
            /\ UNCHANGED <<tasks, task_state, bookVars, workerVars, chanVars, guardVars>>
       ELSE /\ book' = BookFromSnapshot(exchange[1])
            /\ call' = NoCall
            /\ value' = [asks |-> <<>>, bids |-> <<>>]
            /\ rx_alive' = TRUE
            /\ unseen' = FALSE
            /\ pc' = [w \in Workers |-> "next"]
            /\ frame' = [w \in Workers |-> "none"]
            /\ data' = [w \in Workers |-> <<>>]
            /\ result' = [w \in Workers |-> "none"]
            /\ holders' = {}
            /\ snap' = [w \in Workers |-> <<>>]
            /\ stored' = [w \in Workers |-> FALSE]
            /\ tasks' = [w \in Workers |-> Len(task_state) + w]
            /\ task_state' = task_state \o [w \in Workers |-> "running"]
            /\ mgr' = [mgr EXCEPT !.inits = @ + 1, !.op = "init", !.ret = "Ok"]
    /\ UNCHANGED <<exchange, sent, tableVars, consumerVars, feed, flatVars>>

\* OrderBookManager::init: fetch_snapshot(symbol).await? returns the error
\* before anything is built; otherwise the book of the snapshot, the channel
\* seeded with book.top(), one task spawned per worker, and self.tasks
\* replaced by the new handles
OrderBookManagerInit ==
    /\ mgr.inits < MaxInits
    /\ IF exchange = <<>>
       THEN /\ mgr' = [mgr EXCEPT !.inits = @ + 1, !.op = "init", !.ret = "Err"]
            /\ UNCHANGED <<tasks, task_state, bookVars, workerVars, chanVars, guardVars>>
       ELSE /\ book' = BookFromSnapshot(exchange[1])
            /\ call' = NoCall
            /\ value' = Top(book')
            /\ rx_alive' = TRUE
            /\ unseen' = FALSE
            /\ pc' = [w \in Workers |-> "next"]
            /\ frame' = [w \in Workers |-> "none"]
            /\ data' = [w \in Workers |-> <<>>]
            /\ result' = [w \in Workers |-> "none"]
            /\ holders' = {}
            /\ snap' = [w \in Workers |-> <<>>]
            /\ stored' = [w \in Workers |-> FALSE]
            /\ tasks' = [w \in Workers |-> Len(task_state) + w]
            /\ task_state' = task_state \o [w \in Workers |-> "running"]
            /\ mgr' = [mgr EXCEPT !.inits = @ + 1, !.op = "init", !.ret = "Ok"]
    /\ UNCHANGED <<exchange, sent, tableVars, consumerVars, feed, flatVars>>

\* JoinHandle::abort: a running task is asked to cancel, a task that has
\* finished or is already cancelled is left as it is
Abort(state) == IF state = "running" THEN "cancelled" ELSE state

\* the tasks whose handles the manager holds
Held == { tasks[i] : i \in 1 .. Len(tasks) }

\* mutant of ManagerStop: a handle of a task that no longer runs makes stop fail
ManagerStopStrict ==
    /\ mgr.stops < MaxStops
    /\ task_state' = [t \in 1 .. Len(task_state) |->
                          IF t \in Held THEN Abort(task_state[t]) ELSE task_state[t]]
    /\ mgr' = [mgr EXCEPT !.stops = @ + 1, !.op = "stop",
                          !.ret = IF \E t \in Held : task_state[t] # "running"
                                  THEN "panic" ELSE "unit"]
    /\ UNCHANGED <<exchange, tasks, sent, tableVars, consumerVars, feed>>
    /\ UNCHANGED <<bookVars, workerVars, chanVars, flatVars, guardVars>>

\* stop: self.tasks.iter().for_each(|task| task.abort())
ManagerStop ==
    /\ mgr.stops < MaxStops
    /\ task_state' = [t \in 1 .. Len(task_state) |->
                          IF t \in Held THEN Abort(task_state[t]) ELSE task_state[t]]
    /\ mgr' = [mgr EXCEPT !.stops = @ + 1, !.op = "stop", !.ret = "unit"]
    /\ UNCHANGED <<exchange, tasks, sent, tableVars, consumerVars, feed>>
    /\ UNCHANGED <<bookVars, workerVars, chanVars, flatVars, guardVars>>

\* a spawned task returns on its own: its stream has ended
TaskEnds(t) ==
    /\ task_state[t] = "running"
    /\ task_state' = [task_state EXCEPT ![t] = "ended"]
    /\ pc' = [w \in Workers |-> IF tasks[w] = t THEN "done" ELSE pc[w]]
    /\ frame' = [w \in Workers |-> IF tasks[w] = t THEN "end" ELSE frame[w]]
    /\ UNCHANGED <<exchange, mgr, tasks, sent, tableVars, consumerVars, feed>>
    /\ UNCHANGED <<bookVars, data, result, holders, chanVars, flatVars, guardVars>>

NextManager ==
    \/ OrderBookManagerInit
    \/ ManagerStop
    \/ \E t \in 1 .. Len(task_state) : TaskEnds(t)

SpecManager == InitManager /\ [][NextManager]_vars

\* C21: once stop has been called and no init since, no task the manager has
\* ever spawned is left running without a request to cancel.
C21_StopCancelsAll ==
    mgr.op = "stop" => \A t \in 1 .. Len(task_state) : task_state[t] # "running"

\* C22: stop can always be called and returns (); a stop that follows a stop,
\* or finds no running task among its handles (none spawned yet, all ended or
\* cancelled), changes neither the handles nor any task.
C22_StopIdempotent ==
    /\ [](mgr.stops < MaxStops => ENABLED ManagerStop)
    /\ [](mgr.op = "stop" => mgr.ret = "unit")
    /\ [][(mgr'.stops = mgr.stops + 1
           /\ (mgr.op = "stop" \/ \A t \in Held : task_state[t] # "running"))
          => (tasks' = tasks /\ task_state' = task_state)]_vars

\* stop has been called twice running on a manager whose init spawned tasks,
\* and they are cancelled
C22_Witness ==
    /\ mgr.op = "stop"
    /\ mgr.stops >= 2
    /\ tasks # <<>>
    /\ \A t \in Held : task_state[t] = "cancelled"


(***************************************************************************)
(* The price pipeline after PriceStateManager::init, beside the snapshot    *)
(* the REST endpoint holds at that moment.                                 *)
(***************************************************************************)
\* PriceStateManager::init: channel(SymbolPriceUpdate::default()) and
\* MessageBalancer::new(sender); it makes no call to fetch_snapshot, whatever
\* the endpoint would answer
InitPriceBoot ==
    /\ exchange \in { <<>> } \cup { <<snapshot>> : snapshot \in BootSnapshots }
    /\ mgr = NoMgr
    /\ tasks = <<>>
    /\ task_state = <<>>
    /\ last_update_id = <<>>
    /\ forwarded = <<>>
    /\ value = DefaultPriceUpdate
    /\ rx_alive = TRUE
    /\ unseen = FALSE
    /\ sent = <<>>
    /\ NoTable
    /\ NoConsumer
    /\ feed = NoFeed
    /\ pc = [w \in Workers |-> "none"]
    /\ frame = [w \in Workers |-> "none"]
    /\ data = [w \in Workers |-> <<>>]
    /\ result = [w \in Workers |-> "none"]
    /\ holders = {}
    /\ snap = [w \in Workers |-> <<>>]
    /\ stored = [w \in Workers |-> FALSE]
    /\ book = <<>>
    /\ call = NoCall

SpecPriceBoot == InitPriceBoot /\ [][NextInTurn]_vars

\* C23: the first Price Update sent after init is Rejected when its id is not
\* greater than the id of the snapshot the endpoint held at init.
C23_SeededFromSnapshot ==
    (sent # <<>> /\ exchange # <<>> /\ sent[1].id <= exchange[1].last_update_id)
        => sent[1].ret = "Rejected"


(***************************************************************************)
(* The book pipeline from its manager's first init on: the depth workers    *)
(* it spawned, and the consumer holding the receiver it returned.          *)
(***************************************************************************)
\* the first call of init on a manager
FirstInit ==
    /\ mgr.op = "none"
    /\ OrderBookManagerInit

NextBookBoot ==
    \/ FirstInit
    \/ NextBook
    \/ ConsumerBorrow

SpecBookBoot == InitManager /\ [][NextBookBoot]_vars

\* C24: an init whose fetch failed returns the error and leaves no task, no
\* worker and no channel; after an init that returned the receiver, as long
\* as the book has merged no update, the channel holds top() of the book of
\* the fetched snapshot, the consumer can read it without waiting, and that
\* is what every read it made returned.
C24_SeededWithBootTop ==
    /\ mgr.ret = "Err" =>
          /\ tasks = <<>>
          /\ task_state = <<>>
          /\ \A w \in Workers : pc[w] = "none"
    /\ (mgr.ret = "Ok") = (exchange # <<>> /\ mgr.op = "init")
    /\ (mgr.ret = "Ok" /\ book.mode.kind = "Snapshot") =>
          /\ book = BookFromSnapshot(exchange[1])
          /\ value = Top(BookFromSnapshot(exchange[1]))
          /\ rx_alive => ENABLED ConsumerBorrow
          /\ got # <<>> => got = Top(BookFromSnapshot(exchange[1]))

\* init returned the receiver, a worker is in the middle of a send that has
\* not been merged, and the consumer's read gave the bids of the snapshot
C24_Witness ==
    /\ mgr.ret = "Ok"
    /\ book.mode.kind = "Snapshot"
    /\ \E w \in Workers : pc[w] = "check"
    /\ got = Top(BookFromSnapshot(exchange[1]))
    /\ got.bids # <<>>

\* the fetch of init failed
C24_WitnessFetchFailed ==
    /\ mgr.op = "init"
    /\ mgr.ret = "Err"


(***************************************************************************)
(* The application's pipeline (app.rs): BncState hands the watcher tasks a  *)
(* balancer over an mpsc channel and App polls its receiver.               *)
(***************************************************************************)
\* the items sent into the mpsc channel and not yet received
Queued == Len(forwarded) - got_at

\* App::take_from_receiver on the price receiver: receiver.try_recv() gives
\* the oldest queued item, Empty while a sender is left, and Disconnected once
\* every task, each holding a clone of the balancer and so of the Sender, has
\* ended; Disconnected becomes Err(DataTransmitError)
TakeFromReceiver ==
    /\ rx_alive
    /\ IF Queued > 0
       THEN /\ got' = [ret |-> "Some", data |-> forwarded[got_at + 1]]
            /\ got_at' = got_at + 1
       ELSE /\ got' = [ret |-> IF \A w \in Workers : pc[w] = "done"
                               THEN "Err" ELSE "None"]
            /\ UNCHANGED got_at
    /\ UNCHANGED <<sent, tableVars, managerVars, feed>>
    /\ UNCHANGED <<chanVars, workerVars, flatVars, guardVars, bookVars>>


(***************************************************************************)
(* from_orders on its own: one payload, with levels that repeat, is        *)
(* collected into a table.                                                 *)
(***************************************************************************)
\* payloads of up to MaxPayload entries
RECURSIVE PayloadsUpTo(_)
PayloadsUpTo(n) ==
    IF n = 0 THEN { <<>> }
    ELSE PayloadsUpTo(n - 1)
           \cup { Append(p, o) : p \in { q \in PayloadsUpTo(n - 1) : Len(q) = n - 1 },
                                 o \in Orders }

\* a payload is at hand, from_orders has not been called
InitFromOrders ==
    /\ feed \in [payload : PayloadsUpTo(MaxPayload), collected : {FALSE}]
    /\ table = EmptyTable
    /\ side \in {"bids", "asks"}
    /\ levelop = NoOp
    /\ sent = <<>>
    /\ NoConsumer
    /\ NoManager
    /\ book = <<>>
    /\ call = NoCall
    /\ NoPipeline

\* OrderTable::from_orders(data)
CollectOrders ==
    /\ ~feed.collected
    /\ table' = FromOrders(feed.payload)
    /\ feed' = [feed EXCEPT !.collected = TRUE]
    /\ UNCHANGED <<side, levelop, sent, consumerVars, managerVars>>
    /\ UNCHANGED <<bookVars, workerVars, chanVars, flatVars, guardVars>>

NextFromOrders == CollectOrders

SpecFromOrders == InitFromOrders /\ [][NextFromOrders]_vars

\* C30: the table from_orders returns holds exactly the levels that occur in
\* the payload, each once, with the quantity of its last occurrence.
C30_LastOccurrenceWins ==
    feed.collected =>
        LET p == feed.payload
        IN  /\ DOMAIN table = { p[i][1] : i \in 1 .. Len(p) }
            /\ \A i \in 1 .. Len(p) :
                  (\A j \in i + 1 .. Len(p) : p[j][1] # p[i][1])
                      => table[p[i][1]] = p[i][2]

\* a payload in which a level occurs twice with different quantities, another
\* level between them, has been collected
C30_Witness ==
    /\ feed.collected
    /\ Len(feed.payload) = 3
    /\ feed.payload[1][1] = feed.payload[3][1]
    /\ feed.payload[1][2] # feed.payload[3][2]
    /\ feed.payload[2][1] # feed.payload[1][1]
    /\ table[feed.payload[1][1]] = feed.payload[3][2]


(***************************************************************************)
(* The book pipeline fed by one contiguous stream of depth updates: every   *)
(* worker delivers a suffix of it in order; the first worker omits nothing  *)
(* and keeps running, the others may drop updates or end.                  *)
(***************************************************************************)
\* the contiguous streams of well-formed updates that cover the ids a .. MaxId
RECURSIVE StreamsFrom(_)
StreamsFrom(a) ==
    IF a > MaxId THEN { <<>> }
    ELSE UNION { { <<[first_update_id |-> a, final_update_id |-> b,
                      bids |-> << <<(<<"9">>), (<<"0", ".", "5">>)>> >>,
                      asks |-> <<>>]>> \o rest : rest \in StreamsFrom(b + 1) }
                 : b \in a .. MaxId }

\* the worker that delivers its suffix without omission and keeps running
Steady == 1

\* OrderBookManager::init has returned; each worker's connection starts at
\* some update of the stream
InitStream ==
    /\ \E snapshot \in BootSnapshots : book = BookFromSnapshot(snapshot)
    /\ value = Top(book)
    /\ rx_alive = TRUE
    /\ unseen = FALSE
    /\ pc = [w \in Workers |-> "next"]
    /\ frame = [w \in Workers |-> "none"]
    /\ data = [w \in Workers |-> <<>>]
    /\ result = [w \in Workers |-> "none"]
    /\ holders = {}
    /\ snap = [w \in Workers |-> <<>>]
    /\ stored = [w \in Workers |-> FALSE]
    /\ call = NoCall
    /\ last_update_id = <<>>
    /\ forwarded = <<>>
    /\ sent = <<>>
    /\ NoTable
    /\ NoConsumer
    /\ NoManager
    /\ \E stream \in StreamsFrom(0) :
         feed \in [stream : {stream}, pos : [Workers -> 1 .. Len(stream)],
                   merged : { <<>> }, boot : {book.mode.last_update_id}]

\* stream.next().await yields the next update of the worker's connection and
\* the worker calls send(update), which awaits the lock
StreamNext(w) ==
    /\ pc[w] = "next"
    /\ feed.pos[w] <= Len(feed.stream)
    /\ pc' = [pc EXCEPT ![w] = "lock"]
    /\ data' = [data EXCEPT ![w] = feed.stream[feed.pos[w]]]
    /\ result' = [result EXCEPT ![w] = "none"]
    /\ frame' = [frame EXCEPT ![w] = "none"]
    /\ feed' = [feed EXCEPT !.pos[w] = @ + 1]
    /\ UNCHANGED <<holders, chanVars, flatVars, guardVars, bookVars>>
    /\ UNCHANGED <<sent, tableVars, consumerVars, managerVars>>

\* add_depth_update: process_depth_update(update), of the update the worker
\* took from the stream last
StreamMerge(w) ==
    /\ pc[w] = "merge"
    /\ book' = ProcessDepthUpdate(book, data[w])
    /\ pc' = [pc EXCEPT ![w] = "publish"]
    /\ feed' = [feed EXCEPT !.merged = Append(@, feed.pos[w] - 1)]
    /\ UNCHANGED <<call, data, result, holders, chanVars, flatVars, guardVars, frame>>
    /\ UNCHANGED <<sent, tableVars, consumerVars, managerVars>>

\* a worker other than the steady one loses an update of its connection
StreamOmit(w) ==
    /\ w # Steady
    /\ pc[w] = "next"
    /\ feed.pos[w] <= Len(feed.stream)
    /\ feed' = [feed EXCEPT !.pos[w] = @ + 1]
    /\ UNCHANGED <<bookVars, workerVars, chanVars, flatVars, guardVars>>
    /\ UNCHANGED <<sent, tableVars, consumerVars, managerVars>>

NextStream ==
    \/ \E w \in Workers : StreamNext(w)
    \/ \E w \in Workers : DepthAcquire(w)
    \/ \E w \in Workers : BookCheck(w)
    \/ \E w \in Workers : StreamMerge(w)
    \/ \E w \in Workers : BookPublish(w)
    \/ \E w \in Workers : BookUnlock(w)
    \/ \E w \in Workers : StreamOmit(w)
    \/ \E w \in Workers \ {Steady} : WorkerStreamEnd(w)
    \/ DropReceiver

SpecStream == InitStream /\ [][NextStream]_vars

\* the places in the stream of the updates merged so far
Merged == { feed.merged[i] : i \in 1 .. Len(feed.merged) }

\* the update at place k of the stream is in the book already: the snapshot
\* the book was built from covers it, or it has been merged
Reflected(k) ==
    \/ feed.stream[k].final_update_id <= feed.boot
    \/ k \in Merged

\* C32: every update the steady worker sends once the book has accepted an
\* update is in the book already when it is sent, or is accepted then; no
\* update of the stream is merged twice.
C32_NoUpdateLost ==
    /\ (pc[Steady] = "unlock" /\ snap[Steady].book.mode.kind = "Update") =>
          \/ result[Steady] \in {"Ok", "SinkGone"}
          \/ Reflected(feed.pos[Steady] - 1)
    /\ \A i, j \in 1 .. Len(feed.merged) : i # j => feed.merged[i] # feed.merged[j]


(***************************************************************************)
(* The book pipeline under cancellation: stop aborts the tasks one handle   *)
(* after another; an aborted task is dropped at the await it is suspended   *)
(* at, or, if it is running, at the next await it reaches.                 *)
(***************************************************************************)
\* the updates of a stream that carries one id per update, each setting the
\* bid level 9
CancelFeed ==
    { u \in DepthFeed : u.first_update_id = u.final_update_id /\ u.bids # <<>>
                        /\ u.bids[1][2] = <<"0", ".", "5">> }

\* OrderBookManager::init has returned: the book of the snapshot, the channel
\* seeded with its top, the handle of every spawned task in self.tasks
InitCancel ==
    /\ exchange \in { <<snapshot>> : snapshot \in FetchedSnapshots }
    /\ book = BookFromSnapshot(exchange[1])
    /\ value = Top(book)
    /\ rx_alive = TRUE
    /\ unseen = FALSE
    /\ pc = [w \in Workers |-> "next"]
    /\ frame = [w \in Workers |-> "none"]
    /\ data = [w \in Workers |-> <<>>]
    /\ result = [w \in Workers |-> "none"]
    /\ holders = {}
    /\ snap = [w \in Workers |-> <<>>]
    /\ stored = [w \in Workers |-> FALSE]
    /\ call = NoCall
    /\ last_update_id = <<>>
    /\ forwarded = <<>>
    /\ sent = <<>>
    /\ NoTable
    /\ NoConsumer
    /\ feed = NoFeed
    /\ mgr = [inits |-> 1, stops |-> 0, op |-> "init", ret |-> "Ok"]
    /\ tasks = [w \in Workers |-> w]
    /\ task_state = [w \in Workers |-> "running"]

\* the task has been aborted and is not dropped yet
Aborted(w) == task_state[w] \in {"cancelled", "aborting"}

\* what JoinHandle::abort makes of a task at place p: a task suspended at an
\* await (the stream's or the lock's) is dropped without being polled again
\* ("cancelled"); a task that is being polled goes on and is dropped at the
\* first await it finds pending ("aborting").  At the stream's and the lock's
\* await the task may be either; inside send it is being polled.
AbortedAt(p) ==
    IF p \in {"next", "lock"} THEN {"cancelled", "aborting"}
    ELSE IF p \in {"done", "panicked"} THEN {"cancelled"}
    ELSE {"aborting"}

\* stop: one step of self.tasks.iter().for_each(|task| task.abort()), the
\* handles taken in order
AbortNext(w) ==
    /\ task_state[w] = "running"
    /\ \A v \in Workers : v < w => task_state[v] # "running"
    /\ \E state \in AbortedAt(pc[w]) :
         task_state' = [task_state EXCEPT ![w] = state]
    /\ mgr' = [mgr EXCEPT !.op = "stop", !.ret = "unit",
                          !.stops = IF w = NumWorkers THEN 1 ELSE 0]
    /\ UNCHANGED <<exchange, tasks, sent, tableVars, consumerVars, feed>>
    /\ UNCHANGED <<bookVars, workerVars, chanVars, flatVars, guardVars>>

\* stream.next().await is ready with a decoded update: a task polled there,
\* aborted or not, takes it and calls send(update)
TaskNext(w, msg) ==
    /\ task_state[w] # "cancelled"
    /\ DepthNext(w, msg)

\* self.lock().await is ready: a task polled there, aborted or not, is
\* granted the lock
TaskAcquire(w) ==
    /\ task_state[w] # "cancelled"
    /\ DepthAcquire(w)

\* mutant of TaskCancelled: the task is also dropped between the merge and the
\* publish, its guard dropped with it
TaskCancelledMidSend(w) ==
    /\ Aborted(w)
    /\ pc[w] \in {"next", "lock", "publish"}
    /\ pc' = [pc EXCEPT ![w] = "done"]
    /\ frame' = [frame EXCEPT ![w] = IF pc[w] = "next" THEN "cancelled at next"
                                     ELSE "cancelled at lock"]
    /\ data' = [data EXCEPT ![w] = <<>>]
    /\ holders' = holders \ {w}
    /\ snap' = [snap EXCEPT ![w] = <<>>]
    /\ UNCHANGED <<result, stored, chanVars, flatVars, bookVars, auxVars>>

\* mutant of TaskCancelled: an abort lands only at the stream's await, a task
\* waiting for the lock is left waiting
TaskCancelledAtNext(w) ==
    /\ Aborted(w)
    /\ pc[w] = "next"
    /\ pc' = [pc EXCEPT ![w] = "done"]
    /\ frame' = [frame EXCEPT ![w] = "cancelled at next"]
    /\ data' = [data EXCEPT ![w] = <<>>]
    /\ UNCHANGED <<result, holders, guardVars, chanVars, flatVars, bookVars, auxVars>>

\* an aborted task is dropped at an await that is pending: stream.next() or
\* self.lock(); it holds no guard there, and the message it was about to send
\* is dropped with it
TaskCancelled(w) ==
    /\ Aborted(w)
    /\ pc[w] \in {"next", "lock"}
    /\ pc' = [pc EXCEPT ![w] = "done"]
    /\ frame' = [frame EXCEPT ![w] = IF pc[w] = "next" THEN "cancelled at next"
                                     ELSE "cancelled at lock"]
    /\ data' = [data EXCEPT ![w] = <<>>]
    /\ UNCHANGED <<result, holders, guardVars, chanVars, flatVars, bookVars, auxVars>>

NextCancel ==
    \/ \E w \in Workers, msg \in CancelFeed : TaskNext(w, msg)
    \/ \E w \in Workers : TaskAcquire(w)
    \/ \E w \in Workers : BookCheck(w)
    \/ \E w \in Workers : BookMerge(w)
    \/ \E w \in Workers : BookPublish(w)
    \/ \E w \in Workers : BookUnlock(w)
    \/ \E w \in Workers : AbortNext(w)
    \/ \E w \in Workers : TaskCancelled(w)

SpecCancel == InitCancel /\ [][NextCancel]_vars

\* C33: a task dropped by its abort holds no guard; whatever tasks have been
\* aborted, a send that has taken the lock leaves book, channel and result as
\* the same send run alone, with the lock free the channel holds top() of the
\* book, and a task that was not aborted is granted the free lock.
C33_CancelKeepsSendsWhole ==
    /\ holders \cap {w \in Workers : pc[w] = "done"} = {}
    /\ holders = {} => value = Top(book)
    /\ \A w \in Workers :
         /\ pc[w] = "publish" =>
               /\ holders = {w}
               /\ book = ProcessDepthUpdate(snap[w].book, data[w])
         /\ pc[w] = "unlock" =>
               LET alone == SendAlone(snap[w], data[w])
               IN  /\ result[w] \in alone.ret
                   /\ book = alone.book
                   /\ value = alone.value[result[w]]
         /\ (pc[w] = "lock" /\ task_state[w] = "running" /\ holders = {}) =>
               ENABLED TaskAcquire(w)

\* a task has been dropped while it waited for the lock a sibling held; the
\* sibling, not aborted, has published its update and is about to return
C33_Witness ==
    \E w, v \in Workers :
        /\ pc[w] = "done"
        /\ frame[w] = "cancelled at lock"
        /\ task_state[v] = "running"
        /\ pc[v] = "unlock"
        /\ result[v] = "Ok"
        /\ value # snap[v].value


(***************************************************************************)
(* The queue-backed balancer of state.rs: the sink is a bounded mpsc        *)
(* channel, send awaits room in it under the balancer's lock, and           *)
(* ControlledReceiver::finalize aborts the tasks.                          *)
(***************************************************************************)
\* the capacity the channel is created with (channel_capacity)
QueueCap == 1

\* BncState::symbol_price_receiver has returned: an empty channel, a balancer
\* with no last id, one spawned task per worker, their handles in tasks; each
\* task has its connect_async still to run
InitQueue ==
    /\ last_update_id = <<>>
    /\ forwarded = <<>>
    /\ pc = [w \in Workers |-> "connect"]
    /\ frame = [w \in Workers |-> "none"]
    /\ data = [w \in Workers |-> <<>>]
    /\ result = [w \in Workers |-> "none"]
    /\ holders = {}
    /\ value = <<>>
    /\ rx_alive = TRUE
    /\ unseen = FALSE
    /\ snap = [w \in Workers |-> <<>>]
    /\ stored = [w \in Workers |-> FALSE]
    /\ book = <<>>
    /\ call = NoCall
    /\ sent = <<>>
    /\ NoTable
    /\ NoConsumer
    /\ feed = NoFeed
    /\ exchange = <<>>
    /\ mgr = NoMgr
    /\ tasks = [w \in Workers |-> w]
    /\ task_state = [w \in Workers |-> "running"]

\* symbol_book_ticks(endpoint).await?: connect_async, run inside the spawned
\* task, gives the stream, or fails and the task returns the Err
QueueConnect(w) ==
    /\ pc[w] = "connect"
    /\ task_state[w] # "cancelled"
    /\ \E connected \in BOOLEAN :
         /\ pc' = [pc EXCEPT ![w] = IF connected THEN "next" ELSE "done"]
         /\ frame' = [frame EXCEPT ![w] = IF connected THEN @ ELSE "refused"]
    /\ UNCHANGED <<data, result, holders, chanVars, flatVars, guardVars, bookVars, auxVars>>

\* stream.next().await yields an update and the task calls send(update)
QueueNext(w, item) ==
    /\ task_state[w] # "cancelled"
    /\ WorkerNext(w, item)

\* send: let mut balancer = self.lock().await
QueueLock(w) ==
    /\ task_state[w] # "cancelled"
    /\ FlatLock(w)

\* the channel holds as many items the consumer has not taken as it has places
QueueFull == Len(forwarded) - got_at >= QueueCap

\* send: one poll of balancer.sender.send(data).await, the lock held.  It
\* fails once the Receiver is gone and puts the item into the channel when
\* there is room.  It is pending with the channel full: the task is suspended
\* in the send ("sending") until an item is taken or the Receiver is dropped.
\* It is pending as well, whatever the channel holds, when the poll budget of
\* the runtime is spent: the task yields and is scheduled again ("yielded"),
\* its next poll starting with a fresh budget.  A task that was aborted while
\* it was polled is dropped on returning pending and is not polled again.
QueueForward(w) ==
    /\ pc[w] \in {"forward", "yielded", "sending"}
    /\ task_state[w] # "cancelled"
    /\ \/ /\ ~rx_alive
          /\ result' = [result EXCEPT ![w] = "SinkGone"]
          /\ pc' = [pc EXCEPT ![w] = "unlock"]
          /\ UNCHANGED <<forwarded, task_state>>
       \/ /\ rx_alive
          /\ ~QueueFull
          /\ forwarded' = Append(forwarded, data[w])
          /\ result' = [result EXCEPT ![w] = "Ok"]
          /\ pc' = [pc EXCEPT ![w] = "unlock"]
          /\ UNCHANGED task_state
       \/ /\ \/ pc[w] = "forward" /\ pc' = [pc EXCEPT ![w] = "yielded"]
             \/ /\ pc[w] \in {"forward", "yielded"}
                /\ rx_alive
                /\ QueueFull
                /\ pc' = [pc EXCEPT ![w] = "sending"]
          /\ task_state' = [task_state EXCEPT
                               ![w] = IF @ = "aborting" THEN "cancelled" ELSE @]
          /\ UNCHANGED <<forwarded, result>>
    /\ UNCHANGED <<data, holders, chanVars, last_update_id, guardVars, bookVars>>
    /\ UNCHANGED <<sent, tableVars, consumerVars, exchange, mgr, tasks, feed, frame>>

\* the last poll of sender.send(data).await by task w returned pending
SendPending(w) == pc[w] \in {"yielded", "sending"}

\* task w, pending in the send, is scheduled to be polled again: it yielded,
\* or it was suspended on the full channel and has been woken since (an item
\* has been taken, or the Receiver is gone)
SendWoken(w) ==
    \/ pc[w] = "yielded"
    \/ pc[w] = "sending" /\ (~rx_alive \/ ~QueueFull)

\* ControlledReceiver::finalize: one step of
\* self.tasks.iter().for_each(|task| task.abort()), the handles taken in order.
\* A task that is not being polled is dropped without another poll, also when
\* it has been woken and not polled yet; a task that is being polled goes on
\* to the first await it finds pending.  A task at connect_async, or scheduled
\* again in the send, may be either; one suspended on the full channel is not
\* being polled.
QueueAbort(w) ==
    /\ task_state[w] = "running"
    /\ \A v \in Workers : v < w => task_state[v] # "running"
    /\ \E state \in (IF pc[w] = "connect" \/ SendWoken(w)
                     THEN {"cancelled", "aborting"}
                     ELSE IF SendPending(w) THEN {"cancelled"}
                     ELSE AbortedAt(pc[w])) :
         task_state' = [task_state EXCEPT ![w] = state]
    /\ UNCHANGED <<exchange, mgr, tasks, sent, tableVars, consumerVars, feed>>
    /\ UNCHANGED <<bookVars, workerVars, chanVars, flatVars, guardVars>>

\* an aborted task is dropped at the await it is pending at: connect_async,
\* stream.next(), self.lock(), or sender.send(data); the guard it holds there
\* and the item it was sending are dropped with it
QueueCancelled(w) ==
    /\ Aborted(w)
    /\ \/ pc[w] \in {"connect", "next", "lock"}
       \/ SendPending(w) /\ task_state[w] = "cancelled"
    /\ frame' = [frame EXCEPT ![w] = IF SendPending(w) THEN "cancelled at send"
                                     ELSE "cancelled"]
    /\ pc' = [pc EXCEPT ![w] = "done"]
    /\ data' = [data EXCEPT ![w] = <<>>]
    /\ holders' = holders \ {w}
    /\ UNCHANGED <<result, guardVars, chanVars, flatVars, bookVars, auxVars>>

\* the consumer takes the oldest item of the channel
QueueRecv ==
    /\ Len(forwarded) - got_at > 0
    /\ TakeFromReceiver

NextQueue ==
    \/ \E w \in Workers : QueueConnect(w)
    \/ \E w \in Workers, item \in PriceUpdates : QueueNext(w, item)
    \/ \E w \in Workers : QueueLock(w)
    \/ \E w \in Workers : FlatCheck(w)
    \/ \E w \in Workers : FlatSet(w)
    \/ \E w \in Workers : QueueForward(w)
    \/ \E w \in Workers : Unlock(w)
    \/ \E w \in Workers : QueueAbort(w)
    \/ \E w \in Workers : QueueCancelled(w)
    \/ QueueRecv

SpecQueue == InitQueue /\ [][NextQueue]_vars

\* C34: the item whose id last_update_id holds has been put into the channel
\* or is held by a task that is still sending it, no id is put into the
\* channel twice, and the consumer receives the items in the order sent.
C34_RecordedIsDelivered ==
    /\ last_update_id # <<>> =>
          \/ \E i \in 1 .. Len(forwarded) : UpdateId(forwarded[i]) = last_update_id[1]
          \/ \E w \in Workers : pc[w] \in {"forward", "yielded", "sending", "unlock"}
                                /\ UpdateId(data[w]) = last_update_id[1]
    /\ \A i, j \in 1 .. Len(forwarded) :
          i < j => UpdateId(forwarded[i]) < UpdateId(forwarded[j])
    /\ (got # <<>> /\ got_at > 0) => got.data = forwarded[got_at]


(***************************************************************************)
(* The application over the queue-backed balancer: App::init has created   *)
(* the two receivers and their tasks, on_tick polls both receivers,        *)
(* finalize aborts the tasks.                                              *)
(***************************************************************************)
\* App::init: BncState::symbol_depth_receiver and symbol_price_receiver have
\* each returned an empty mpsc channel, a balancer with no last id and one
\* spawned task per worker; each task has its connect_async still to run.
\* The price pipeline is held step by step; of the depth pipeline feed holds
\* what on_tick can tell: the tasks that have not ended, each with a clone of
\* the Sender, and the number of updates in its channel
InitApp ==
    /\ pc = [w \in Workers |-> "connect"]
    /\ frame = [w \in Workers |-> "none"]
    /\ last_update_id = <<>>
    /\ forwarded = <<>>
    /\ data = [w \in Workers |-> <<>>]
    /\ result = [w \in Workers |-> "none"]
    /\ holders = {}
    /\ value = <<>>
    /\ rx_alive = TRUE
    /\ unseen = FALSE
    /\ snap = [w \in Workers |-> <<>>]
    /\ stored = [w \in Workers |-> FALSE]
    /\ book = <<>>
    /\ call = NoCall
    /\ sent = <<>>
    /\ NoTable
    /\ NoConsumer
    /\ feed = [depth_tasks |-> NumWorkers, depth_queued |-> 0]
    /\ exchange = <<>>
    /\ mgr = NoMgr
    /\ tasks = [w \in Workers |-> w]
    /\ task_state = [w \in Workers |-> "running"]

\* the updates the application's tasks take from their streams: two ids, so
\* that an update is refused and the channel is full with two tasks sending
AppItems == { item \in PriceUpdates : UpdateId(item) <= 1 }

\* the events without an update that the application's tasks meet: a text
\* frame that does not decode
AppEvents == { event \in WireEvents : Kept(event) /\ ~Decodes(event) }

\* stream.next().await is ready with an event that yields no update
AppSkip(w, event) ==
    /\ task_state[w] # "cancelled"
    /\ WorkerSkip(w, event)

\* stream.next().await is ready with None
AppStreamEnd(w) ==
    /\ task_state[w] # "cancelled"
    /\ WorkerStreamEnd(w)

\* a task of the depth receiver has sent an update into the depth channel
DepthQueued ==
    /\ feed.depth_tasks > 0
    /\ feed.depth_queued < QueueCap
    /\ feed' = [feed EXCEPT !.depth_queued = @ + 1]
    /\ UNCHANGED <<sent, tableVars, consumerVars, managerVars>>
    /\ UNCHANGED <<chanVars, workerVars, flatVars, guardVars, bookVars>>

\* a task of the depth receiver has ended, its clone of the Sender dropped:
\* its connect_async failed, its stream ended, or it was dropped after
\* finalize aborted it
DepthTaskEnded ==
    /\ feed.depth_tasks > 0
    /\ feed' = [feed EXCEPT !.depth_tasks = @ - 1]
    /\ UNCHANGED <<sent, tableVars, consumerVars, managerVars>>
    /\ UNCHANGED <<chanVars, workerVars, flatVars, guardVars, bookVars>>

\* what receiver.try_recv() gives on the price receiver: the oldest queued
\* item, Empty while a sender is left, Disconnected once every task has ended
PriceTryRecv ==
    IF Queued > 0 THEN "Some"
    ELSE IF \A w \in Workers : pc[w] = "done" THEN "Err" ELSE "None"

\* what receiver.try_recv() gives on the depth receiver
DepthTryRecv ==
    IF feed.depth_queued > 0 THEN "Some"
    ELSE IF feed.depth_tasks = 0 THEN "Err" ELSE "None"

\* App::on_tick: take_from_receiver on the price receiver, then on the depth
\* receiver, each followed by ?; only when both returned Ok are the updates
\* stored.  A Disconnected price receiver returns Err before the depth
\* receiver is read; a Disconnected depth receiver returns Err after the
\* price receiver was read, and the price update taken from the channel is
\* dropped unstored.  got holds what the tick made of the price update.
OnTick ==
    /\ rx_alive
    /\ IF PriceTryRecv = "Err"
       THEN /\ got' = [ret |-> "Err"]
            /\ UNCHANGED <<got_at, feed>>
       ELSE /\ got_at' = IF PriceTryRecv = "Some" THEN got_at + 1 ELSE got_at
            /\ IF DepthTryRecv = "Err"
               THEN /\ got' = [ret |-> "Err"]
                    /\ UNCHANGED feed
               ELSE /\ got' = IF PriceTryRecv = "Some"
                              THEN [ret |-> "Some", data |-> forwarded[got_at + 1]]
                              ELSE [ret |-> "None"]
                    /\ feed' = [feed EXCEPT !.depth_queued =
                                    IF @ > 0 THEN @ - 1 ELSE @]
    /\ UNCHANGED <<sent, tableVars, managerVars>>
    /\ UNCHANGED <<chanVars, workerVars, flatVars, guardVars, bookVars>>

NextApp ==
    \/ \E w \in Workers : QueueConnect(w)
    \/ \E w \in Workers, item \in AppItems : QueueNext(w, item)
    \/ \E w \in Workers : QueueLock(w)
    \/ \E w \in Workers : FlatCheck(w)
    \/ \E w \in Workers : FlatSet(w)
    \/ \E w \in Workers : QueueForward(w)
    \/ \E w \in Workers : Unlock(w)
    \/ \E w \in Workers, event \in AppEvents : AppSkip(w, event)
    \/ \E w \in Workers : AppStreamEnd(w)
    \/ \E w \in Workers : QueueAbort(w)
    \/ \E w \in Workers : QueueCancelled(w)
    \/ DepthQueued
    \/ DepthTaskEnded
    \/ OnTick
    \/ DropReceiver

SpecApp == InitApp /\ [][NextApp]_vars

\* C26: no read of the consumer returns an error; and a step in which a task
\* skips an event, ends, or has its send return Rejected or SinkGone leaves
\* the channel with the items it held.
C26_NoErrorSurfaced ==
    /\ [](got # <<>> => got.ret # "Err")
    /\ [][(\/ \E w \in Workers : frame'[w] # frame[w] /\ frame'[w] # "none"
           \/ \E w \in Workers :
                 /\ result'[w] \in {"Rejected", "SinkGone"}
                 /\ result'[w] # result[w] \/ data'[w] # data[w])
          => UNCHANGED <<forwarded, got_at, value>>]_vars

(***************************************************************************)
(* Either balancer driven by one caller that may send an item again: the   *)
(* flat balancer (book = <<>>) or the book balancer on the book of a        *)
(* snapshot, the consumer dropping its receiver at any time.               *)
(***************************************************************************)
InitResend ==
    \/ InitInTurn
    \/ /\ \E snapshot \in BootSnapshots : book = BookFromSnapshot(snapshot)
       /\ value = Top(book)
       /\ rx_alive = TRUE
       /\ unseen = FALSE
       /\ last_update_id = <<>>
       /\ forwarded = <<>>
       /\ sent = <<>>
       /\ NoTable
       /\ NoConsumer
       /\ NoManager
       /\ feed = NoFeed
       /\ pc = [w \in Workers |-> "none"]
       /\ frame = [w \in Workers |-> "none"]
       /\ data = [w \in Workers |-> <<>>]
       /\ result = [w \in Workers |-> "none"]
       /\ holders = {}
       /\ snap = [w \in Workers |-> <<>>]
       /\ stored = [w \in Workers |-> FALSE]
       /\ call = NoCall

\* one whole send(item) of the flat balancer
FlatSendInTurn(item) ==
    /\ book = <<>>
    /\ SendInTurn(item)

\* one whole send(update) of the book balancer: lock, add_depth_update, the
\* early return on false, sender.send(book.top()), return; a panic of the
\* subtraction ends the calling task, the guard is dropped and the next caller
\* finds the book as it was.  sent keeps the send made last.
BookSendInTurn(update) ==
    /\ book # <<>>
    /\ \E checks \in OverflowChecks :
         LET r == AddDepthUpdate(book, update, checks)
             ret == IF r.ret = "panic" THEN "panicked"
                    ELSE IF r.ret = "false" THEN "Rejected"
                    ELSE IF rx_alive THEN "Ok" ELSE "SinkGone"
         IN  /\ book' = r.book
             /\ value' = IF ret = "Ok" THEN Top(r.book) ELSE value
             /\ unseen' = (unseen \/ ret = "Ok")
             /\ sent' = << [item |-> update, ret |-> ret, before |-> book,
                            turn |-> IF sent = <<>> THEN 0 ELSE 1 - sent[1].turn] >>
    /\ UNCHANGED <<rx_alive, call, flatVars, workerVars, guardVars, tableVars, consumerVars>>
    /\ UNCHANGED <<managerVars, feed>>

NextResend ==
    \/ \E item \in PriceUpdates : FlatSendInTurn(item)
    \/ \E update \in DepthFeed : BookSendInTurn(update)
    \/ DropReceiver

SpecResend == InitResend /\ [][NextResend]_vars

\* the send made last
LastSent == sent[Len(sent)]

\* C35: after a send that returned SinkGone the admission state is the
\* advanced one (the flat balancer holds the item's id; the book holds the
\* item's range as its mode and the item merged into its tables), and a send
\* of the same item that follows it returns Rejected.
C35_SinkGoneNotRolledBack ==
    /\ [](sent # <<>> /\ LastSent.ret = "SinkGone" =>
            IF book = <<>>
            THEN last_update_id = <<LastSent.id>>
            ELSE book = ProcessDepthUpdate(LastSent.before, LastSent.item))
    /\ [][(/\ sent # <<>>
           /\ sent' # sent
           /\ LastSent.ret = "SinkGone"
           /\ IF book = <<>>
              THEN LastSent'.id = LastSent.id
              ELSE LastSent'.item = LastSent.item)
          => LastSent'.ret = "Rejected"]_vars


(***************************************************************************)
(* The book pipeline from stop to the end of its channel: the tasks are    *)
(* aborted, the runtime drops each at its await, and the consumer waits     *)
(* for changes of the channel.                                             *)
(***************************************************************************)
\* the updates that follow a snapshot with last_update_id 0 on a stream that
\* carries one id per update
StopFeed == { u \in CancelFeed : u.first_update_id \in 1 .. 2 }

\* every task has run to its end or was dropped, and with it its clone of the
\* balancer: no Sender is left
ChannelClosed == \A w \in Workers : pc[w] \in {"done", "panicked"}

\* what the consumer holds after receiver.changed().await returned Err
ClosedResult == [ret |-> "closed"]

\* receiver.changed().await on a channel with no unseen value and no Sender
\* left returns Err
ConsumerReleased ==
    /\ rx_alive
    /\ ~unseen
    /\ ChannelClosed
    /\ got' = ClosedResult
    /\ UNCHANGED <<got_at, sent, tableVars, managerVars, feed>>
    /\ UNCHANGED <<chanVars, workerVars, flatVars, guardVars, bookVars>>

NextStop ==
    \/ \E w \in Workers, msg \in StopFeed : TaskNext(w, msg)
    \/ \E w \in Workers : TaskAcquire(w)
    \/ \E w \in Workers : BookCheck(w)
    \/ \E w \in Workers : BookMerge(w)
    \/ \E w \in Workers : BookPublish(w)
    \/ \E w \in Workers : BookUnlock(w)
    \/ \E w \in Workers : AbortNext(w)
    \/ \E w \in Workers : TaskCancelled(w)
    \/ ConsumerChanged
    \/ ConsumerReleased

SpecStop == InitCancel /\ [][NextStop]_vars

\* the runtime polls a task that can run: a send that holds the lock runs to
\* its return, and the consumer is woken by a change or by the closing.  An
\* aborted task is dropped at the first await it finds pending: it cannot go
\* round its loop for ever, since each time it is back at stream.next() the
\* drop is possible (the socket has nothing ready, or the poll's budget of the
\* runtime is spent), which is strong fairness of the drop.
FairStop ==
    /\ \A w \in Workers :
         /\ WF_vars(BookCheck(w))
         /\ WF_vars(BookMerge(w))
         /\ WF_vars(BookPublish(w))
         /\ WF_vars(BookUnlock(w))
         /\ SF_vars(TaskCancelled(w))
    /\ WF_vars(ConsumerChanged)
    /\ WF_vars(ConsumerReleased)

SpecStopFair == SpecStop /\ FairStop

\* stop has aborted every handle of the manager
StopReturned == \A w \in Workers : task_state[w] # "running"

\* C36: once stop has aborted every task, eventually every task has ended and
\* the consumer waiting for the next change holds the closed-channel result;
\* and from the moment every task has ended the channel's value never changes.
C36_StopClosesChannel ==
    /\ StopReturned ~> (ChannelClosed /\ got = ClosedResult)
    /\ [][ChannelClosed => (ChannelClosed' /\ value' = value)]_vars

\* the consumer has been released with the closed-channel result after stop,
\* the channel holding a value a task had published
C36_Witness ==
    /\ StopReturned
    /\ got = ClosedResult
    /\ book.mode.kind = "Update"
    /\ value = Top(book)
    /\ value.bids # <<>>


(***************************************************************************)
(* The price pipeline under its manager with the consumer of its test:     *)
(* init has spawned the tasks, the consumer reads the channel only after a  *)
(* change notification, stop aborts the tasks.                             *)
(***************************************************************************)
\* PriceStateManager::init has returned: a fresh balancer, the channel seeded
\* with the default update, one spawned task per worker with its handle kept
\* in self.tasks; each task has its connect_async still to run
InitPriceConsumer ==
    /\ last_update_id = <<>>
    /\ forwarded = <<>>
    /\ pc = [w \in Workers |-> "connect"]
    /\ frame = [w \in Workers |-> "none"]
    /\ data = [w \in Workers |-> <<>>]
    /\ result = [w \in Workers |-> "none"]
    /\ holders = {}
    /\ value = DefaultPriceUpdate
    /\ rx_alive = TRUE
    /\ unseen = FALSE
    /\ snap = [w \in Workers |-> <<>>]
    /\ stored = [w \in Workers |-> FALSE]
    /\ book = <<>>
    /\ call = NoCall
    /\ sent = <<>>
    /\ NoTable
    /\ NoConsumer
    /\ feed = NoFeed
    /\ exchange = <<>>
    /\ mgr = NoMgr
    /\ tasks = [w \in Workers |-> w]
    /\ task_state = [w \in Workers |-> "running"]

\* PriceStateManager::stop: one step of
\* self.tasks.iter().for_each(|task| task.abort()), the handles taken in order.
\* A task suspended at an await is dropped without another poll; a task that
\* is being polled goes on to the first await it finds pending.  At
\* connect_async, the stream's and the lock's await the task may be either;
\* inside send, which has no await after the lock, it is being polled.
PriceStop(w) ==
    /\ task_state[w] = "running"
    /\ \A v \in Workers : v < w => task_state[v] # "running"
    /\ \E state \in (IF pc[w] = "connect" THEN {"cancelled", "aborting"}
                     ELSE AbortedAt(pc[w])) :
         task_state' = [task_state EXCEPT ![w] = state]
    /\ UNCHANGED <<exchange, mgr, tasks, sent, tableVars, consumerVars, feed>>
    /\ UNCHANGED <<bookVars, workerVars, chanVars, flatVars, guardVars>>

\* an aborted task is dropped at the await it is pending at: connect_async,
\* stream.next() or self.lock(); it holds no guard there, and the update it
\* was about to send and its clone of the Sender are dropped with it
PriceTaskDropped(w) ==
    /\ Aborted(w)
    /\ pc[w] \in {"connect", "next", "lock"}
    /\ frame' = [frame EXCEPT ![w] = "cancelled"]
    /\ pc' = [pc EXCEPT ![w] = "done"]
    /\ data' = [data EXCEPT ![w] = <<>>]
    /\ UNCHANGED <<result, holders, guardVars, chanVars, flatVars, bookVars, auxVars>>

NextPriceConsumer ==
    \/ \E w \in Workers : QueueConnect(w)
    \/ \E w \in Workers, item \in PriceUpdates : QueueNext(w, item)
    \/ \E w \in Workers : QueueLock(w)
    \/ \E w \in Workers : FlatCheck(w)
    \/ \E w \in Workers : FlatSet(w)
    \/ \E w \in Workers : FlatForward(w)
    \/ \E w \in Workers : Unlock(w)
    \/ \E w \in Workers : PriceStop(w)
    \/ \E w \in Workers : PriceTaskDropped(w)
    \/ ConsumerChanged
    \/ ConsumerReleased

SpecPriceConsumer == InitPriceConsumer /\ [][NextPriceConsumer]_vars

\* C28: every value the consumer reads after a change notification is a value
\* the balancer published, and its id is greater than the id of the value the
\* consumer read before it, however many publishes lie between the two reads.
\* A wait that ends with the closed-channel result reads no value.
C28_ConsumerSeesIncreasingIds ==
    /\ [](got \notin {<<>>, ClosedResult} => (got_at > 0 /\ got = forwarded[got_at]))
    /\ [][((got' # got \/ got_at' # got_at) /\ got' # ClosedResult) =>
            /\ got_at' > got_at
            /\ got # <<>> => UpdateId(got') > UpdateId(got)]_vars

\* the consumer has read a value and two more have been published since, so
\* that its next read skips the first of them, while two tasks are in a send
C28_Witness ==
    /\ got \notin {<<>>, ClosedResult}
    /\ unseen
    /\ Len(forwarded) >= got_at + 2
    /\ \E w, v \in Workers : w # v /\ pc[w] \notin {"connect", "next", "done"}
                                   /\ pc[v] \notin {"connect", "next", "done"}


(***************************************************************************)
(* The subtraction of the Update-mode admission test, under SpecOrderBook. *)
(***************************************************************************)
\* C37: a call of add_depth_update on a Book in Update mode with an update
\* whose first_update_id is 0 returns false and leaves the Book as it was; it
\* does not panic.
C37_ZeroFirstIdRejected ==
    (/\ Called
     /\ call.before.mode.kind = "Update"
     /\ call.update.first_update_id = 0)
    => (call.ret = "false" /\ book = call.before)

=============================================================================
